---------------------------- MODULE Spec2Model ----------------------------
(***************************************************************************)
(* A model of the ft_trans auth server: the in-memory identity store       *)
(* (UserService), the provider token store (OAuthService), the OAuth      *)
(* callback routes, the 2FA methods and the bearer-token endpoints.        *)
(*                                                                         *)
(* JavaScript strings are sequences of one-character strings, so that      *)
(* toLowerCase, === and length are computed and not assumed.               *)
(* A Map is a function whose DOMAIN is the set of its keys.                *)
(***************************************************************************)
EXTENDS Integers, Sequences, FiniteSets, Bags, TLC

VARIABLES
    users,          \* UserService.users: userId -> user object
    usersByEmail,   \* UserService.usersByEmail: email -> userId
    providerLinks,  \* UserService.providerLinks: <<provider, providerId>> -> userId
    userTokens,     \* OAuthService.userTokens of the /auth routes: userId -> record
    legacyTokens,   \* OAuthService.userTokens of the legacy /oauth routes
    hashing,        \* createUser calls suspended at `await this.hashPassword`
    nextId,         \* number of user ids generated so far (ids are never reused)
    nextState,      \* number of CSRF states generated so far
    cookies,        \* the browser's cookie jar: oauth_state, oauth_link_user
    consumed,       \* history: the state values /auth callbacks have been processed with
    pending,        \* history: state value -> the link intent of the initiation that issued it
    exchanging,     \* /auth callbacks suspended at `await oauthService.exchangeCodeForTokens`
    nextSecret,     \* number of TOTP secrets generated so far
    comparing,      \* disable2FA / regenerateBackupCodes calls suspended at `await this.verifyPassword`
    spent,          \* history: <<userId, code>> of every backup-code submission that succeeded
    issued,         \* the signed tokens handed out to clients so far
    pong,           \* the PongGame object of the browser page: its game state, ball, score and timers
    playerPaused,   \* history: the last Space press paused a started, running game
    last            \* the response to the last request or call

storeVars == <<users, usersByEmail, providerLinks>>
regVars == <<hashing, nextId>>
oauthVars == <<userTokens, legacyTokens, nextState, cookies, consumed, pending, exchanging>>
tfaVars == <<nextSecret, comparing, spent>>
pongVars == <<pong, playerPaused>>
vars == <<users, usersByEmail, providerLinks, userTokens, legacyTokens,
          hashing, nextId, nextState, cookies, consumed, pending, exchanging, nextSecret,
          comparing,
          spent,
          issued, pong, playerPaused, last>>

\* the PongGame object after its constructor: init() has called resetBall while
\* gameStarted was false, so no timer is armed; the ball is at the centre
NewGame(direction) ==
    [gameRunning |-> FALSE, gameStarted |-> FALSE, ballX |-> 0, direction |-> direction,
     score |-> [player1 |-> 0, player2 |-> 0], timers |-> 0]

---------------------------------------------------------------------------
(* Bounds of the model *)

\* user ids that generateUserId hands out in one run
MaxUsers == 2
\* createUser calls that may be suspended at the password hash at once
MaxInFlight == 2
\* CSRF states that generateState hands out in one run
MaxStates == 2
\* TOTP secrets that setup2FA generates in one run
MaxSecrets == 2
\* draws of generateBackupCodes that the model leaves free (the other draws of a
\* list are distinct fixed values)
MaxDraws == 2
\* ticks of the browser's clock after a cookie was set
MaxTicks == 2

---------------------------------------------------------------------------
(* JavaScript values *)

\* `undefined`: a value that is no string of the model's alphabet
Undefined == << "<undefined>" >>
\* the empty string
Empty == << >>
\* no user id (Map.get of an absent key, null)
NoUser == 0
\* an absent cookie
NoCookie == 0

Falsy(v) == v = Undefined \/ v = Empty

UpperToLower == ("A" :> "a") @@ ("B" :> "b")

\* String.prototype.toLowerCase
toLowerCase(s) ==
    [i \in DOMAIN s |-> IF s[i] \in DOMAIN UpperToLower THEN UpperToLower[s[i]] ELSE s[i]]

\* String.prototype.includes for a one-character needle
includes(s, c) == \E i \in DOMAIN s : s[i] = c

\* Map.set
MapSet(m, k, v) == [x \in DOMAIN m \cup {k} |-> IF x = k THEN v ELSE m[x]]
\* Map.delete
MapDelete(m, k) == [x \in DOMAIN m \ {k} |-> m[x]]
\* Map.get, for maps whose values are user ids
MapGetId(m, k) == IF k \in DOMAIN m THEN m[k] ELSE NoUser
EmptyMap == << >>

---------------------------------------------------------------------------
(* Credential verifier *)

\* UserService.saltRounds
saltRounds == 12

\* bcrypt.hash(password, saltRounds): an opaque value that is not the password
hashPassword(password) == [alg |-> "bcrypt", rounds |-> saltRounds, of |-> password]

\* bcrypt.compare
verifyPassword(password, hashedPassword) == hashedPassword = hashPassword(password)

---------------------------------------------------------------------------
(* Identity store: UserService *)

\* the twoFactor object of a fresh user
NoTwoFactor == [enabled |-> FALSE, secret |-> 0, backupCodes |-> << >>,
                lastUsedBackupCode |-> 0]

\* UserService.isUsernameTaken: strict equality on the stored username
isUsernameTaken(us, username) == \E u \in DOMAIN us : us[u].username = username

\* UserService.createUser up to the await: the error thrown, or "ok"
createUserChecks(us, byEmail, email, password, username) ==
    IF email = Undefined THEN "TypeError"
    ELSE IF toLowerCase(email) \in DOMAIN byEmail THEN "Email already registered"
    ELSE IF ~Falsy(username) /\ isUsernameTaken(us, username) THEN "Username already taken"
    ELSE IF Falsy(username) THEN "Username is required"
    ELSE IF Falsy(password) THEN "Password is required"
    ELSE IF Falsy(email) THEN "Email is required"
    ELSE "ok"

\* the user object createUser builds after the hash
newUser(userId, email, hashedPassword, username) ==
    [id |-> userId, email |-> toLowerCase(email), username |-> username,
     password |-> hashedPassword, providers |-> EmptyMap, twoFactor |-> NoTwoFactor,
     lastLogin |-> "created"]

\* a sanitizeUser that copies the twoFactor object as it is stored
sanitizeUserKeepsTwoFactor(user) ==
    [id |-> user.id, email |-> user.email, username |-> user.username,
     lastLogin |-> user.lastLogin, twoFactor |-> user.twoFactor,
     providers |-> [p \in DOMAIN user.providers |-> [linkedAt |-> "set"]]]

\* UserService.sanitizeUser: the projection of a stored user that is returned
sanitizeUser(user) ==
    [id |-> user.id, email |-> user.email, username |-> user.username,
     lastLogin |-> user.lastLogin,
     twoFactor |->
         [enabled |-> user.twoFactor.enabled,
          backupCodesRemaining |->
              Cardinality({i \in DOMAIN user.twoFactor.backupCodes :
                             ~user.twoFactor.backupCodes[i].used})],
     providers |-> [p \in DOMAIN user.providers |-> [linkedAt |-> "set"]]]

\* sanitizeUser(null) is null
NoUserObject == [id |-> NoUser]

\* the user object a call returns for the user it acted on, null when it has none
returnsUser(us, userId) ==
    [user |-> IF userId \in DOMAIN us THEN sanitizeUser(us[userId]) ELSE NoUserObject]

\* UserService.createUser after the await: users.set and usersByEmail.set
createUserStoreUsers(us, userId, frame) ==
    MapSet(us, userId, newUser(userId, frame.email, hashPassword(frame.password), frame.username))

createUserStoreIndex(byEmail, userId, frame) ==
    MapSet(byEmail, toLowerCase(frame.email), userId)

\* a createUser that writes the email index as soon as the email check has
\* passed, before the username and password checks
createUserSyncEager(us, byEmail, email, password, username) ==
    [result |-> createUserChecks(us, byEmail, email, password, username),
     users |-> us,
     usersByEmail |-> IF email # Undefined /\ toLowerCase(email) \notin DOMAIN byEmail
                        THEN MapSet(byEmail, toLowerCase(email), NoUser)
                        ELSE byEmail]

\* UserService.createUser up to the await, as what it returns to the caller and
\* what it leaves in the two maps: every throw comes before the first mutation
createUserSync(us, byEmail, email, password, username) ==
    [result |-> createUserChecks(us, byEmail, email, password, username),
     users |-> us, usersByEmail |-> byEmail]

\* UserService.generateJWT: the payload of a full session token
generateJWT(userId, is2FAVerified) ==
    [sig |-> "ok", id |-> userId, temp2FA |-> FALSE, twoFactorVerified |-> is2FAVerified,
     iss |-> "auth"]

\* UserService.generateTempJWT: the payload carries temp2FA: true
generateTempJWT(userId) ==
    [sig |-> "ok", id |-> userId, temp2FA |-> TRUE, twoFactorVerified |-> FALSE,
     iss |-> "auth"]

\* a createUser call passes its checks and suspends at the hash, or throws;
\* `route` says whether POST /auth/register made the call
createUserCall(email, password, username, route) ==
    LET out == createUserSync(users, usersByEmail, email, password, username)
        name == IF route THEN "register" ELSE "createUser" IN
    /\ users' = out.users
    /\ usersByEmail' = out.usersByEmail
    /\ IF out.result = "ok"
         THEN /\ BagCardinality(hashing) < MaxInFlight
              /\ nextId + BagCardinality(hashing) < MaxUsers
              /\ hashing' = hashing (+) SetToBag({[email |-> email, password |-> password,
                                                   username |-> username, route |-> route]})
              /\ last' = [op |-> name, result |-> "pending", id |-> NoUser]
         ELSE /\ hashing' = hashing
              /\ last' = [op |-> name, result |-> out.result, id |-> NoUser]
    /\ UNCHANGED <<providerLinks, nextId, oauthVars, tfaVars, issued, pongVars>>

\* a direct call of UserService.createUser
createUser(email, password, username) == createUserCall(email, password, username, FALSE)

\* the validation of POST /auth/register before it calls createUser
registerValidation(email, password, username) ==
    IF Falsy(email) \/ Falsy(password) \/ Falsy(username)
      THEN "Email, password, and username are required"
    ELSE IF Len(password) < 8 THEN "Password must be at least 8 characters long"
    ELSE IF ~includes(email, "@") THEN "Invalid email format"
    ELSE "ok"

\* POST /auth/register up to the await inside createUser
Register(email, password, username) ==
    LET r == registerValidation(email, password, username) IN
    IF r = "ok"
      THEN createUserCall(email, password, username, TRUE)
      ELSE /\ last' = [op |-> "register", result |-> r, id |-> NoUser]
           /\ UNCHANGED <<storeVars, regVars, pongVars, oauthVars, tfaVars, issued>>

\* the hash resolves: generateUserId, then the user and its index entry are stored;
\* the register route then signs a session token for the new user
createUserResume(frame) ==
    /\ BagIn(frame, hashing)
    /\ LET userId == nextId + 1 IN
       /\ nextId' = userId
       /\ users' = createUserStoreUsers(users, userId, frame)
       /\ usersByEmail' = createUserStoreIndex(usersByEmail, userId, frame)
       /\ last' = [op |-> IF frame.route THEN "register" ELSE "createUser",
                   result |-> "ok", id |-> userId]
                    @@ returnsUser(createUserStoreUsers(users, userId, frame), userId)
       /\ issued' = IF frame.route THEN issued \cup {generateJWT(userId, FALSE)} ELSE issued
    /\ hashing' = hashing (-) SetToBag({frame})
    /\ UNCHANGED <<providerLinks, oauthVars, tfaVars, pongVars>>

\* UserService.getUserById, as the id it resolves to (sanitizeUser is applied later)
getUserById(us, userId) == IF userId \in DOMAIN us THEN userId ELSE NoUser

\* UserService.getUserByProvider
getUserByProvider(us, links, provider, providerId) ==
    LET userId == MapGetId(links, <<provider, providerId>>) IN
    IF userId # NoUser THEN getUserById(us, userId) ELSE NoUser

\* UserService.isProviderLinked
isProviderLinked(links, provider, providerId) == <<provider, providerId>> \in DOMAIN links

\* UserService.getLinkedProviders, as the set of provider names
getLinkedProviders(us, userId) ==
    IF userId \in DOMAIN us THEN DOMAIN us[userId].providers ELSE {}

\* a linkProvider that does not look at the reverse index
linkProviderErrorNoReverseCheck(us, links, userId, provider, providerId) ==
    IF userId \notin DOMAIN us THEN "User not found" ELSE "ok"

\* a linkProvider that refuses every account the reverse index knows
linkProviderErrorRejectsRelink(us, links, userId, provider, providerId) ==
    IF <<provider, providerId>> \in DOMAIN links
      THEN "This provider account is already linked to another user"
    ELSE IF userId \notin DOMAIN us THEN "User not found"
    ELSE "ok"

\* UserService.linkProvider: the error thrown, or "ok"
linkProviderError(us, links, userId, provider, providerId) ==
    IF <<provider, providerId>> \in DOMAIN links /\ links[<<provider, providerId>>] # userId
      THEN "This provider account is already linked to another user"
    ELSE IF userId \notin DOMAIN us THEN "User not found"
    ELSE "ok"

\* UserService.linkProvider: user.providers.set
linkProviderUsers(us, userId, provider, providerId) ==
    [us EXCEPT ![userId].providers = MapSet(@, provider, providerId)]

\* UserService.linkProvider: providerLinks.set
linkProviderLinks(links, userId, provider, providerId) ==
    MapSet(links, <<provider, providerId>>, userId)

\* UserService.unlinkProvider: the error thrown, or "ok"
unlinkProviderError(us, userId, provider) ==
    IF userId \notin DOMAIN us THEN "User not found"
    ELSE IF provider \notin DOMAIN us[userId].providers THEN "Provider not linked to this user"
    ELSE "ok"

unlinkProviderUsers(us, userId, provider) ==
    [us EXCEPT ![userId].providers = MapDelete(@, provider)]

\* an unlinkProvider that leaves the reverse mapping in place
unlinkProviderLinksKeepsReverse(us, links, userId, provider) == links

\* UserService.unlinkProvider: providerLinks.delete
unlinkProviderLinks(us, links, userId, provider) ==
    MapDelete(links, <<provider, us[userId].providers[provider]>>)

\* UserService.updateUser: the error thrown, or "ok"
updateUserError(us, byEmail, userId, updates) ==
    IF userId \notin DOMAIN us THEN "User not found"
    ELSE IF /\ ~Falsy(updates.email)
            /\ updates.email # us[userId].email
            /\ toLowerCase(updates.email) \in DOMAIN byEmail
      THEN "Email already in use"
    ELSE "ok"

\* whether updateUser takes its email branch
updateUserChangesEmail(us, userId, updates) ==
    ~Falsy(updates.email) /\ updates.email # us[userId].email

\* UserService.updateUser: the user object after the email and username branches
updateUserUsers(us, userId, updates) ==
    LET u1 == IF updateUserChangesEmail(us, userId, updates)
                THEN [us EXCEPT ![userId].email = toLowerCase(updates.email)]
                ELSE us
    IN  IF ~Falsy(updates.username)
          THEN [u1 EXCEPT ![userId].username = updates.username]
          ELSE u1

\* UserService.updateUser: usersByEmail.delete(old) then usersByEmail.set(new)
updateUserIndex(us, byEmail, userId, updates) ==
    IF updateUserChangesEmail(us, userId, updates)
      THEN MapSet(MapDelete(byEmail, us[userId].email), toLowerCase(updates.email), userId)
      ELSE byEmail

\* UserService.deleteUser: the reverse entries of the user's forward links are removed
deleteUserLinks(us, links, userId) ==
    [k \in DOMAIN links \ {<<p, us[userId].providers[p]>> : p \in DOMAIN us[userId].providers}
       |-> links[k]]

---------------------------------------------------------------------------
(* Calls of the identity store *)

otherVars == <<regVars, oauthVars, tfaVars, issued, pongVars>>

\* a call of UserService.updateUser (it has no await: the call is one step)
updateUser(userId, updates) ==
    LET r == updateUserError(users, usersByEmail, userId, updates) IN
    /\ IF r = "ok"
         THEN /\ users' = updateUserUsers(users, userId, updates)
              /\ usersByEmail' = updateUserIndex(users, usersByEmail, userId, updates)
         ELSE UNCHANGED <<users, usersByEmail>>
    /\ last' = [op |-> "updateUser", result |-> r, id |-> userId, email |-> updates.email]
                 @@ returnsUser(users', IF r = "ok" THEN userId ELSE NoUser)
    /\ UNCHANGED <<providerLinks, otherVars>>

\* a call of UserService.deleteUser
deleteUser(userId) ==
    /\ IF userId \in DOMAIN users
         THEN /\ usersByEmail' = MapDelete(usersByEmail, users[userId].email)
              /\ providerLinks' = deleteUserLinks(users, providerLinks, userId)
              /\ users' = MapDelete(users, userId)
              /\ last' = [op |-> "deleteUser", result |-> "ok", id |-> userId]
         ELSE /\ UNCHANGED <<users, usersByEmail, providerLinks>>
              /\ last' = [op |-> "deleteUser", result |-> "User not found", id |-> userId]
    /\ UNCHANGED otherVars

\* a call of UserService.linkProvider
linkProvider(userId, provider, providerId) ==
    LET r == linkProviderError(users, providerLinks, userId, provider, providerId) IN
    /\ IF r = "ok"
         THEN /\ users' = linkProviderUsers(users, userId, provider, providerId)
              /\ providerLinks' = linkProviderLinks(providerLinks, userId, provider, providerId)
         ELSE UNCHANGED <<users, providerLinks>>
    /\ last' = [op |-> "linkProvider", result |-> r, id |-> userId,
                provider |-> provider, providerId |-> providerId,
                relink |-> /\ userId \in DOMAIN users
                           /\ provider \in DOMAIN users[userId].providers
                           /\ users[userId].providers[provider] = providerId]
                 @@ returnsUser(users', IF r = "ok" THEN userId ELSE NoUser)
    /\ UNCHANGED <<usersByEmail>>
    /\ UNCHANGED otherVars

\* a call of UserService.unlinkProvider
unlinkProvider(userId, provider) ==
    LET r == unlinkProviderError(users, userId, provider) IN
    /\ IF r = "ok"
         THEN /\ users' = unlinkProviderUsers(users, userId, provider)
              /\ providerLinks' = unlinkProviderLinks(users, providerLinks, userId, provider)
         ELSE UNCHANGED <<users, providerLinks>>
    /\ last' = [op |-> "unlinkProvider", result |-> r, id |-> userId, provider |-> provider]
                 @@ returnsUser(users', IF r = "ok" THEN userId ELSE NoUser)
    /\ UNCHANGED <<usersByEmail>>
    /\ UNCHANGED otherVars

\* a call of UserService.getUserById
getUserByIdCall(userId) ==
    /\ last' = [op |-> "getUserById", result |-> "ok", id |-> getUserById(users, userId)]
                 @@ returnsUser(users, getUserById(users, userId))
    /\ UNCHANGED <<storeVars, otherVars>>

\* a call of UserService.getUserByEmail
getUserByEmailCall(email) ==
    LET userId == getUserById(users, MapGetId(usersByEmail, toLowerCase(email))) IN
    /\ last' = [op |-> "getUserByEmail", result |-> "ok", id |-> userId]
                 @@ returnsUser(users, userId)
    /\ UNCHANGED <<storeVars, otherVars>>

\* a call of UserService.getUserByProvider
getUserByProviderCall(provider, providerId) ==
    LET userId == getUserByProvider(users, providerLinks, provider, providerId) IN
    /\ last' = [op |-> "getUserByProvider", result |-> "ok", id |-> userId]
                 @@ returnsUser(users, userId)
    /\ UNCHANGED <<storeVars, otherVars>>

---------------------------------------------------------------------------
(* Inputs *)

EmailA == <<"a", "@", "x">>
EmailAUpper == <<"A", "@", "x">>
EmailB == <<"b", "@", "x">>
NameA == <<"a", "l">>
NameAUpper == <<"A", "l">>
NameB == <<"b", "o">>
\* a password of 8 characters, the shortest the register route accepts
Password == <<"p", "a", "s", "s", "w", "o", "r", "d">>
ShortPassword == <<"p", "w">>

UserIds == 1 .. MaxUsers

\* oauth_state and oauth_link_user are set with path "/"; legacy_state is the
\* oauth_state cookie the legacy /oauth routes set without a path
\* the jar also keeps how long ago (in ticks of the browser's clock) oauth_state and
\* oauth_link_user were set
NoCookies == [oauth_state |-> NoCookie, oauth_link_user |-> NoCookie, legacy_state |-> NoCookie,
              stateAge |-> 0, linkAge |-> 0]

NoResponse == [op |-> "none", result |-> "none", id |-> NoUser]

\* the state after `new UserService()` and `new OAuthService()`
Init ==
    /\ users = EmptyMap
    /\ usersByEmail = EmptyMap
    /\ providerLinks = EmptyMap
    /\ userTokens = EmptyMap
    /\ legacyTokens = EmptyMap
    /\ hashing = EmptyBag
    /\ nextId = 0
    /\ nextState = 0
    /\ cookies = NoCookies
    /\ consumed = {}
    /\ pending = EmptyMap
    /\ exchanging = EmptyBag
    /\ nextSecret = 0
    /\ comparing = EmptyBag
    /\ spent = {}
    /\ issued = {}
    /\ pong = NewGame(1)
    /\ playerPaused = FALSE
    /\ last = NoResponse

---------------------------------------------------------------------------
(* Second factor: UserService 2FA methods *)

Digits == {"0", "1", "2", "3", "4", "5", "6", "7", "8", "9"}

\* !isNaN(token): the string converts to a number. Number() strips the white
\* space around the text, takes the empty text for 0 and accepts an optional sign
\* before a decimal literal with at most one point and at least one digit (the
\* exponent, radix-prefixed and Infinity forms use letters no token here contains)
isNumeric(s) ==
    LET text == {i \in DOMAIN s : s[i] # " "} IN
    IF text = {} THEN TRUE
    ELSE LET lo == CHOOSE i \in text : \A j \in text : i <= j
             hi == CHOOSE i \in text : \A j \in text : j <= i
             from == IF s[lo] \in {"+", "-"} THEN lo + 1 ELSE lo
         IN
         /\ \A i \in from .. hi : s[i] \in Digits \cup {"."}
         /\ Cardinality({i \in from .. hi : s[i] = "."}) <= 1
         /\ \E i \in from .. hi : s[i] \in Digits

\* generateBackupCodes(count = 10)
BackupCodeCount == 10

\* an 8-digit string ending in the two given digits
code8(a, b) == <<"1", "0", "0", "0", "0", "0", a, b>>

\* the values the free draws of crypto.randomInt(10000000, 99999999) range over
CodeSpace == {code8("0", "1"), code8("0", "2")}

Draws == [1 .. MaxDraws -> CodeSpace]

DigitOf == [i \in 0 .. 9 |-> CHOOSE d \in Digits : d = ToString(i)]

\* UserService.generateBackupCodes: count draws; the model leaves the first
\* MaxDraws draws free and fixes the others to distinct values outside CodeSpace
generateBackupCodes(draws) ==
    [i \in 1 .. BackupCodeCount |->
        IF i <= MaxDraws THEN draws[i] ELSE code8("9", DigitOf[i % 10])]

\* a backupCodes array whose first code is already marked used
freshBackupCodesFirstUsed(draws) ==
    [i \in 1 .. BackupCodeCount |-> [code |-> generateBackupCodes(draws)[i], used |-> i = 1]]

\* the backupCodes array built from freshly generated codes
freshBackupCodes(draws) ==
    [i \in 1 .. BackupCodeCount |-> [code |-> generateBackupCodes(draws)[i], used |-> FALSE]]

\* the 6-digit code the authenticator shows for a secret (the time step is not
\* modelled: one code per secret is valid)
totpCode(secret) == <<"6", "0", "0", "0", "0", DigitOf[secret % 10]>>
\* speakeasy.totp.verify({secret, token, window: 2})
totpVerify(secret, token) == secret # 0 /\ token = totpCode(secret)

\* a setup2FA that does not test whether 2FA is already enabled
setup2FAErrorNoEnabledCheck(us, userId) ==
    IF userId \notin DOMAIN us THEN "User not found" ELSE "ok"

\* UserService.setup2FA: the error thrown, or "ok"
setup2FAError(us, userId) ==
    IF userId \notin DOMAIN us THEN "User not found"
    ELSE IF us[userId].twoFactor.enabled THEN "2FA is already enabled for this user"
    ELSE "ok"

\* a verify2FASetup that does not check the code
verify2FASetupErrorNoCode(us, userId, token) ==
    IF userId \notin DOMAIN us THEN "User not found"
    ELSE IF us[userId].twoFactor.secret = 0 THEN "2FA setup not initiated"
    ELSE IF us[userId].twoFactor.enabled THEN "2FA is already enabled"
    ELSE "ok"

\* UserService.verify2FASetup: the error thrown, or "ok"
verify2FASetupError(us, userId, token) ==
    IF userId \notin DOMAIN us THEN "User not found"
    ELSE IF us[userId].twoFactor.secret = 0 THEN "2FA setup not initiated"
    ELSE IF us[userId].twoFactor.enabled THEN "2FA is already enabled"
    ELSE IF ~totpVerify(us[userId].twoFactor.secret, token) THEN "Invalid 2FA code"
    ELSE "ok"

\* verify2FA takes a token for a backup code when it has 8 characters and is numeric
isBackupCodeShape(token) == Len(token) = 8 /\ isNumeric(token)

\* the index of the first backup code that equals `code` and is unused, or 0:
\* Array.prototype.find in verifyBackupCode
findBackupCode(codes, code) ==
    LET hits == {i \in DOMAIN codes : codes[i].code = code /\ ~codes[i].used} IN
    IF hits = {} THEN 0 ELSE CHOOSE i \in hits : \A j \in hits : i <= j

\* UserService.verifyBackupCode: the error thrown, or "ok"
verifyBackupCodeError(us, userId, code) ==
    IF userId \notin DOMAIN us THEN "User not found"
    ELSE IF findBackupCode(us[userId].twoFactor.backupCodes, code) = 0 THEN "Invalid backup code"
    ELSE "ok"

\* UserService.verifyBackupCode: the found code is marked used
verifyBackupCodeUsers(us, userId, code) ==
    LET i == findBackupCode(us[userId].twoFactor.backupCodes, code) IN
    [us EXCEPT ![userId].twoFactor.backupCodes[i].used = TRUE,
               ![userId].twoFactor.lastUsedBackupCode = code]

\* UserService.verify2FA: the error thrown, or "ok"
verify2FAError(us, userId, token) ==
    IF userId \notin DOMAIN us THEN "User not found"
    ELSE IF ~us[userId].twoFactor.enabled THEN "2FA is not enabled for this user"
    ELSE IF isBackupCodeShape(token) THEN verifyBackupCodeError(us, userId, token)
    ELSE IF ~totpVerify(us[userId].twoFactor.secret, token) THEN "Invalid 2FA code"
    ELSE "ok"

\* UserService.verify2FA: the method that verified the token
verify2FAMethod(token) == IF isBackupCodeShape(token) THEN "backup_code" ELSE "totp"

\* UserService.verify2FA: the users after a successful verification
verify2FAUsers(us, userId, token) ==
    IF isBackupCodeShape(token) THEN verifyBackupCodeUsers(us, userId, token) ELSE us

\* the backup-code submissions that have succeeded, after a verification
spentAfter(sp, userId, token, result) ==
    IF result = "ok" /\ isBackupCodeShape(token) THEN sp \cup {<<userId, token>>} ELSE sp

\* the response to a call that submits a 2FA token
tfaResponse(op, userId, token, result) ==
    [op |-> op, result |-> result, id |-> userId,
     method |-> verify2FAMethod(token), resubmitted |-> <<userId, token>> \in spent]

\* UserService.setup2FA; the secret is stored before the QR code is awaited
setup2FA(userId) ==
    LET err == setup2FAError(users, userId) IN
    /\ err = "ok" => nextSecret < MaxSecrets
    /\ users' = IF err = "ok"
                THEN [users EXCEPT ![userId].twoFactor.secret = nextSecret + 1]
                ELSE users
    /\ nextSecret' = IF err = "ok" THEN nextSecret + 1 ELSE nextSecret
    /\ last' = [op |-> "setup2FA", result |-> err, id |-> userId]
    /\ UNCHANGED <<usersByEmail, providerLinks, regVars, pongVars, oauthVars, comparing, spent, issued>>

\* UserService.verify2FASetup: the users after a successful confirmation
verify2FASetupUsers(us, userId, draws) ==
    [us EXCEPT ![userId].twoFactor.enabled = TRUE,
               ![userId].twoFactor.backupCodes = freshBackupCodes(draws)]

\* UserService.verify2FASetup
verify2FASetup(userId, token, draws) ==
    LET err == verify2FASetupError(users, userId, token) IN
    /\ users' = IF err = "ok" THEN verify2FASetupUsers(users, userId, draws) ELSE users
    /\ last' = [op |-> "verify2FASetup", result |-> err, id |-> userId,
                valid |-> /\ userId \in DOMAIN users
                          /\ users[userId].twoFactor.secret # 0
                          /\ token = totpCode(users[userId].twoFactor.secret)]
    /\ UNCHANGED <<usersByEmail, providerLinks, otherVars>>

\* UserService.verify2FA
verify2FA(userId, token) ==
    LET err == verify2FAError(users, userId, token) IN
    /\ users' = IF err = "ok" THEN verify2FAUsers(users, userId, token) ELSE users
    /\ spent' = spentAfter(spent, userId, token, err)
    /\ last' = tfaResponse("verify2FA", userId, token, err)
                 @@ [eightDigits |-> Len(token) = 8 /\ \A i \in DOMAIN token : token[i] \in Digits]
    /\ UNCHANGED <<usersByEmail, providerLinks, regVars, pongVars, oauthVars, nextSecret, comparing,
                   issued>>

\* the checks disable2FA and regenerateBackupCodes make before the password is compared
twoFactorCallError(us, userId) ==
    IF userId \notin DOMAIN us THEN "User not found"
    ELSE IF ~us[userId].twoFactor.enabled THEN "2FA is not enabled"
    ELSE "pending"

\* disable2FA or regenerateBackupCodes is called: it throws, or suspends at
\* `await this.verifyPassword(currentPassword, user.password)`
twoFactorCall(op, userId, currentPassword, token) ==
    LET err == twoFactorCallError(users, userId) IN
    /\ BagCardinality(comparing) < MaxInFlight
    /\ comparing' = IF err = "pending"
                    THEN comparing (+) SetToBag({[op |-> op, userId |-> userId, token |-> token,
                            isValidPassword |->
                                verifyPassword(currentPassword, users[userId].password)]})
                    ELSE comparing
    /\ last' = tfaResponse(op, userId, token, err)
    /\ UNCHANGED <<storeVars, regVars, pongVars, oauthVars, nextSecret, spent, issued>>

\* UserService.disable2FA
disable2FA(userId, currentPassword, token) ==
    twoFactorCall("disable2FA", userId, currentPassword, token)

\* UserService.regenerateBackupCodes
regenerateBackupCodes(userId, currentPassword, token) ==
    twoFactorCall("regenerateBackupCodes", userId, currentPassword, token)

\* a resumed call that does not look at the result of the password comparison
twoFactorResumeErrorNoPassword(us, frame) == verify2FAError(us, frame.userId, frame.token)

\* the error a resumed disable2FA / regenerateBackupCodes throws, or "ok"
twoFactorResumeError(us, frame) ==
    IF ~frame.isValidPassword THEN "Invalid password"
    ELSE verify2FAError(us, frame.userId, frame.token)

\* a resumed regenerateBackupCodes that appends the new codes to the old list
twoFactorResumeUsersAppends(us, frame, draws) ==
    LET verified == verify2FAUsers(us, frame.userId, frame.token) IN
    IF frame.op = "disable2FA"
    THEN [verified EXCEPT ![frame.userId].twoFactor = NoTwoFactor]
    ELSE [verified EXCEPT ![frame.userId].twoFactor.backupCodes =
                              @ \o freshBackupCodes(draws)]

\* a resumed disable2FA that clears the enabled flag and leaves the rest
twoFactorResumeUsersKeepsCodes(us, frame, draws) ==
    LET verified == verify2FAUsers(us, frame.userId, frame.token) IN
    IF frame.op = "disable2FA"
    THEN [verified EXCEPT ![frame.userId].twoFactor.enabled = FALSE]
    ELSE [verified EXCEPT ![frame.userId].twoFactor.backupCodes = freshBackupCodes(draws)]

\* the users after a resumed call has verified its token and done its work
twoFactorResumeUsers(us, frame, draws) ==
    LET verified == verify2FAUsers(us, frame.userId, frame.token) IN
    IF frame.op = "disable2FA"
    THEN [verified EXCEPT ![frame.userId].twoFactor = NoTwoFactor]
    ELSE [verified EXCEPT ![frame.userId].twoFactor.backupCodes = freshBackupCodes(draws)]

\* the password comparison of a suspended disable2FA / regenerateBackupCodes
\* completes: the token is verified against the state of that moment, then
\* 2FA is reset, or the backup codes are replaced
twoFactorResume(frame, draws) ==
    LET err == twoFactorResumeError(users, frame) IN
    /\ BagIn(frame, comparing)
    /\ comparing' = comparing (-) SetToBag({frame})
    /\ users' = IF err = "ok" THEN twoFactorResumeUsers(users, frame, draws) ELSE users
    /\ spent' = IF frame.isValidPassword
                THEN spentAfter(spent, frame.userId, frame.token, err)
                ELSE spent
    /\ last' = tfaResponse(frame.op, frame.userId, frame.token, err)
                 @@ [passwordOk |-> frame.isValidPassword,
                     codeOk |-> verify2FAError(users, frame.userId, frame.token) = "ok"]
    /\ UNCHANGED <<usersByEmail, providerLinks, regVars, pongVars, oauthVars, nextSecret, issued>>

---------------------------------------------------------------------------
(* Tokens *)

\* no Authorization header and no token parameter
NoToken == [sig |-> "none", id |-> NoUser, temp2FA |-> FALSE, twoFactorVerified |-> FALSE,
            iss |-> "none"]
\* a token that is malformed or not signed with JWT_SECRET
BadToken == [sig |-> "bad", id |-> NoUser, temp2FA |-> FALSE, twoFactorVerified |-> FALSE,
             iss |-> "none"]

\* UserService.verifyJWT: whether jwt.verify returns the payload (it throws otherwise)
verifyJWT(token) == token.sig = "ok"

---------------------------------------------------------------------------
(* OAuth broker and the callback routes *)

\* OAuthService.providers
Providers == {"discord", "github"}
\* a provider name that is not configured
UnknownProvider == "gitlab"
\* the external account ids the provider's user endpoint reports
ProviderIds == {41, 42}

\* OAuthService.storeUserTokens: one record per user id
storeUserTokens(tokens, userId, provider) == MapSet(tokens, userId, [provider |-> provider])

\* UserService.requires2FA
requires2FA(us, userId) == us[userId].twoFactor.enabled

\* oauthService.getUserByProvider of the /auth routes: it hands the lookup to the
\* identity store
oauthGetUserByProvider(us, links, provider, providerId) ==
    getUserByProvider(us, links, provider, providerId)

\* oauthService.linkProviderToUser of the /auth routes: it hands the link to the
\* identity store
linkProviderToUserError(us, links, userId, provider, providerId) ==
    linkProviderError(us, links, userId, provider, providerId)

\* GET /auth/oauth/:provider
OAuthStart(provider, token) ==
    IF provider \notin Providers
      THEN /\ last' = [op |-> "oauth_start", result |-> "Provider not supported"]
           /\ UNCHANGED <<storeVars, regVars, pongVars, oauthVars, tfaVars, issued>>
      ELSE /\ nextState < MaxStates
           /\ nextState' = nextState + 1
           /\ cookies' = [cookies EXCEPT
                            !.oauth_state = nextState + 1,
                            !.oauth_link_user = IF verifyJWT(token) THEN token.id ELSE @,
                            !.stateAge = 0,
                            !.linkAge = IF verifyJWT(token) THEN 0 ELSE @]
           /\ pending' = MapSet(pending, nextState + 1,
                                IF verifyJWT(token) THEN token.id ELSE NoCookie)
           /\ last' = [op |-> "oauth_start", result |-> "redirect"]
           /\ UNCHANGED <<storeVars, regVars, pongVars, userTokens, legacyTokens, consumed, exchanging,
                          tfaVars, issued>>

\* a state check that accepts any state as long as the cookie is present
stateMismatchCookieOnly(jar, state) == jar.oauth_state = NoCookie

\* !storedState || storedState !== state
stateMismatch(jar, state) == jar.oauth_state = NoCookie \/ jar.oauth_state # state

\* a link branch that looks for another owner of the account before it looks
\* for a link of the user's own
linkBranchErrorOwnerFirst(us, links, linkUser, provider, providerId) ==
    LET existingUser == oauthGetUserByProvider(us, links, provider, providerId) IN
    IF existingUser # NoUser /\ existingUser # linkUser
      THEN "provider_linked_to_different_user"
    ELSE IF provider \in getLinkedProviders(us, linkUser)
      THEN "provider_already_linked_to_you"
    ELSE "ok"

\* the link branch of the callback up to the link: the error it redirects with
\* (a throw of linkProviderToUser ends in the catch), or "ok"
linkBranchError(us, links, linkUser, provider, providerId) ==
    LET existingUser == oauthGetUserByProvider(us, links, provider, providerId) IN
    IF provider \in getLinkedProviders(us, linkUser)
      THEN "provider_already_linked_to_you"
    ELSE IF existingUser # NoUser /\ existingUser # linkUser
      THEN "provider_linked_to_different_user"
    ELSE IF linkProviderToUserError(us, links, linkUser, provider, providerId) # "ok"
      THEN "oauth_error"
    ELSE "ok"

\* a stop that leaves a token record behind when it rejects a link attempt
callbackStopLeavesRecord(us, links, toks, jar, result, case) ==
    [result |-> result, case |-> case, users |-> us, providerLinks |-> links,
     userTokens |-> IF case = "link" THEN storeUserTokens(toks, NoUser, "github") ELSE toks,
     cookies |-> jar, token |-> NoToken, id |-> NoUser]

\* what the callback leaves when it stops before touching the stores
callbackStop(us, links, toks, jar, result, case) ==
    [result |-> result, case |-> case, users |-> us, providerLinks |-> links,
     userTokens |-> toks, cookies |-> jar, token |-> NoToken, id |-> NoUser]

\* the token the callback issues for a user: temporary when 2FA is required
callbackToken(us, userId) ==
    IF requires2FA(us, userId) THEN generateTempJWT(userId) ELSE generateJWT(userId, TRUE)

\* a callback link branch that does not look for another owner of the account
callbackOutcomeNoOwnerCheck(us, links, toks, jar, provider, error, state, exchangeOk, profileOk, providerId) ==
    LET bothCleared == [jar EXCEPT !.oauth_state = NoCookie, !.oauth_link_user = NoCookie]
        linkUser == jar.oauth_link_user
    IN
    IF error # Empty
      THEN callbackStop(us, links, toks, jar, "provider_error", "error")
    ELSE IF jar.oauth_state = NoCookie \/ jar.oauth_state # state
      THEN callbackStop(us, links, toks, [jar EXCEPT !.oauth_state = NoCookie],
                        "invalid_state", "invalid_state")
    ELSE IF ~exchangeOk \/ ~profileOk \/ linkUser \notin DOMAIN us
      THEN callbackStop(us, links, toks, bothCleared, "oauth_error", "upstream")
    ELSE [result |-> "issued", case |-> "link",
          users |-> linkProviderUsers(us, linkUser, provider, providerId),
          providerLinks |-> linkProviderLinks(links, linkUser, provider, providerId),
          userTokens |-> storeUserTokens(toks, linkUser, provider),
          cookies |-> bothCleared, token |-> generateJWT(linkUser, TRUE), id |-> linkUser]

\* a lookup of the link user that trusts the cookie
resolveLinkUserUnchecked(us, linkUserId) == linkUserId

\* the callback's lookup of the user the oauth_link_user cookie names:
\* userService.getUserById, null when the cookie is absent or names no user
resolveLinkUser(us, linkUserId) ==
    IF linkUserId # NoCookie THEN getUserById(us, linkUserId) ELSE NoUser

\* GET /auth/oauth/:provider/callback: the redirect, the cookies it leaves in the
\* browser and the stores after it
callbackOutcome(us, links, toks, jar, provider, error, state, exchangeOk, profileOk, providerId) ==
    LET stateCleared == [jar EXCEPT !.oauth_state = NoCookie]
        bothCleared == [jar EXCEPT !.oauth_state = NoCookie, !.oauth_link_user = NoCookie]
        existingUser == oauthGetUserByProvider(us, links, provider, providerId)
        linkUserId == jar.oauth_link_user
        linkUser == resolveLinkUser(us, linkUserId)
        case == IF linkUser # NoUser THEN "link"
                ELSE IF linkUserId # NoCookie THEN "link_unresolved"
                ELSE IF existingUser = NoUser THEN "login_unlinked" ELSE "login"
    IN
    IF error # Empty
      THEN callbackStop(us, links, toks, jar, "provider_error", "error")
    ELSE IF stateMismatch(jar, state)
      THEN callbackStop(us, links, toks, stateCleared, "invalid_state", "invalid_state")
    ELSE IF provider \notin Providers \/ ~exchangeOk \/ ~profileOk
      THEN callbackStop(us, links, toks, bothCleared, "oauth_error", "upstream")
    ELSE IF linkUser # NoUser
      THEN IF linkBranchError(us, links, linkUser, provider, providerId) # "ok"
             THEN callbackStop(us, links, toks, bothCleared,
                               linkBranchError(us, links, linkUser, provider, providerId), case)
           ELSE LET us2 == linkProviderUsers(us, linkUser, provider, providerId) IN
                [result |-> IF requires2FA(us2, linkUser) THEN "requires_2fa" ELSE "issued",
                 case |-> case,
                 users |-> us2,
                 providerLinks |-> linkProviderLinks(links, linkUser, provider, providerId),
                 userTokens |-> storeUserTokens(toks, linkUser, provider),
                 cookies |-> bothCleared,
                 token |-> callbackToken(us2, linkUser),
                 id |-> linkUser]
    ELSE IF existingUser # NoUser
      THEN [result |-> IF requires2FA(us, existingUser) THEN "requires_2fa" ELSE "issued",
            case |-> case,
            users |-> us, providerLinks |-> links,
            userTokens |-> storeUserTokens(toks, existingUser, provider),
            cookies |-> bothCleared,
            token |-> callbackToken(us, existingUser),
            id |-> existingUser]
    ELSE callbackStop(us, links, toks, bothCleared, "account_not_found", case)

\* a request to GET /auth/oauth/:provider/callback and its response; the two
\* provider round trips touch no state of the server, so the handler is one step
OAuthCallback(provider, error, state, exchangeOk, profileOk, providerId) ==
    LET out == callbackOutcome(users, providerLinks, userTokens, cookies, provider, error,
                               state, exchangeOk, profileOk, providerId) IN
    /\ users' = out.users
    /\ providerLinks' = out.providerLinks
    /\ userTokens' = out.userTokens
    /\ cookies' = out.cookies
    /\ issued' = IF out.token # NoToken THEN issued \cup {out.token} ELSE issued
    /\ consumed' = IF state # NoCookie THEN consumed \cup {state} ELSE consumed
    /\ last' = [op |-> "callback", result |-> out.result, case |-> out.case,
                replay |-> state \in consumed, token |-> out.token, verified |-> FALSE,
                intended |-> MapGetId(pending, state) = cookies.oauth_link_user]
    /\ UNCHANGED <<usersByEmail, regVars, pongVars, legacyTokens, nextState, pending, exchanging,
                   tfaVars>>

\* The same handler in the two halves its awaits cut it in, for callbacks that
\* are in flight together. First half: the request arrives; a provider error or a
\* state mismatch is answered at once, otherwise the handler suspends at the code
\* exchange, holding the cookies of the request (linksSeen is history: the
\* reverse index of the moment the request arrived)
OAuthCallbackArrive(provider, error, state) ==
    LET early == callbackOutcome(users, providerLinks, userTokens, cookies, provider, error,
                                 state, FALSE, FALSE, NoUser)
        passes == early.result = "oauth_error"
    IN
    /\ passes => BagCardinality(exchanging) < MaxInFlight
    /\ exchanging' = IF passes
                     THEN exchanging (+) SetToBag({[provider |-> provider, state |-> state,
                                                    cookies |-> cookies,
                                                    linksSeen |-> DOMAIN providerLinks]})
                     ELSE exchanging
    /\ cookies' = IF passes THEN cookies ELSE early.cookies
    /\ consumed' = IF state # NoCookie THEN consumed \cup {state} ELSE consumed
    /\ last' = [op |-> "callback_arrive", result |-> IF passes THEN "pending" ELSE early.result,
                error |-> error # Empty,
                mismatch |-> cookies.oauth_state = NoCookie \/ cookies.oauth_state # state]
    /\ UNCHANGED <<storeVars, regVars, pongVars, userTokens, legacyTokens, nextState, pending, tfaVars,
                   issued>>

\* Second half: the exchange and the profile fetch of a suspended callback have
\* completed; the rest of the handler runs without an await and the response
\* clears both cookies in the browser
OAuthCallbackResume(frame, exchangeOk, profileOk, providerId) ==
    LET out == callbackOutcome(users, providerLinks, userTokens, frame.cookies,
                               frame.provider, Empty, frame.state, exchangeOk, profileOk,
                               providerId)
        owner == oauthGetUserByProvider(users, providerLinks, frame.provider, providerId)
    IN
    /\ BagIn(frame, exchanging)
    /\ exchanging' = exchanging (-) SetToBag({frame})
    /\ users' = out.users
    /\ providerLinks' = out.providerLinks
    /\ userTokens' = out.userTokens
    /\ cookies' = [cookies EXCEPT !.oauth_state = NoCookie, !.oauth_link_user = NoCookie]
    /\ issued' = IF out.token # NoToken THEN issued \cup {out.token} ELSE issued
    /\ last' = [op |-> "callback_resume", result |-> out.result, case |-> out.case,
                linkUser |-> frame.cookies.oauth_link_user,
                owner |-> IF exchangeOk /\ profileOk THEN owner ELSE NoUser,
                raced |-> /\ exchangeOk /\ profileOk /\ owner # NoUser
                          /\ <<frame.provider, providerId>> \notin frame.linksSeen,
                ownLink |-> exchangeOk /\ profileOk /\ out.case = "link"
                            /\ frame.provider \in
                                 getLinkedProviders(users, frame.cookies.oauth_link_user)]
    /\ UNCHANGED <<usersByEmail, regVars, pongVars, legacyTokens, nextState, consumed, pending,
                   tfaVars>>

\* the id the legacy createOrUpdateUser gives a provider account,
\* `${provider}_${providerId}`, which is no id of the identity store
legacyUserId(provider, providerId) ==
    (IF provider = "discord" THEN 100 ELSE 200) + providerId

\* OAuthService.generateJWT of the legacy routes: no temp2FA, no twoFactorVerified
legacyGenerateJWT(provider, providerId) ==
    [sig |-> "ok", id |-> legacyUserId(provider, providerId), temp2FA |-> FALSE,
     twoFactorVerified |-> FALSE, iss |-> "legacy"]

\* GET /oauth/:provider
LegacyOAuthStart(provider) ==
    IF provider \notin Providers
      THEN /\ last' = [op |-> "legacy_start", result |-> "Provider not supported"]
           /\ UNCHANGED <<storeVars, regVars, pongVars, oauthVars, tfaVars, issued>>
      ELSE /\ nextState < MaxStates
           /\ nextState' = nextState + 1
           /\ cookies' = [cookies EXCEPT !.legacy_state = nextState + 1]
           /\ last' = [op |-> "legacy_start", result |-> "redirect"]
           /\ UNCHANGED <<storeVars, regVars, pongVars, userTokens, legacyTokens, consumed, pending,
                          exchanging, tfaVars, issued>>

\* GET /oauth/:provider/callback: the redirect, the cookies and the legacy token store
legacyCallbackOutcome(links, toks, jar, provider, error, state, exchangeOk, profileOk, providerId) ==
    LET storedState == IF jar.legacy_state # NoCookie THEN jar.legacy_state ELSE jar.oauth_state
        stop(result, case) == [result |-> result, case |-> case, legacyTokens |-> toks,
                               cookies |-> jar, token |-> NoToken, id |-> NoUser]
    IN
    IF error # Empty THEN stop("provider_error", "error")
    ELSE IF storedState = NoCookie \/ storedState # state THEN stop("invalid_state", "invalid_state")
    ELSE IF provider \notin Providers \/ ~exchangeOk \/ ~profileOk THEN stop("oauth_failed", "upstream")
    ELSE [result |-> "issued",
          case |-> IF isProviderLinked(links, provider, providerId) THEN "login" ELSE "login_unlinked",
          legacyTokens |-> storeUserTokens(toks, legacyUserId(provider, providerId), provider),
          cookies |-> [jar EXCEPT !.legacy_state = NoCookie],
          token |-> legacyGenerateJWT(provider, providerId),
          id |-> legacyUserId(provider, providerId)]

\* a request to GET /oauth/:provider/callback and its response
LegacyOAuthCallback(provider, error, state, exchangeOk, profileOk, providerId) ==
    LET out == legacyCallbackOutcome(providerLinks, legacyTokens, cookies, provider, error,
                                     state, exchangeOk, profileOk, providerId) IN
    /\ legacyTokens' = out.legacyTokens
    /\ cookies' = out.cookies
    /\ issued' = IF out.token # NoToken THEN issued \cup {out.token} ELSE issued
    /\ last' = [op |-> "legacy_callback", result |-> out.result, case |-> out.case]
    /\ UNCHANGED <<storeVars, regVars, pongVars, userTokens, nextState, consumed, pending, exchanging,
                   tfaVars>>

---------------------------------------------------------------------------
(* The identity store under register, profile update and delete *)

StoreEmails == {EmailA, EmailAUpper, EmailB, Empty, Undefined}
StoreNames == {NameA, NameAUpper, Empty, Undefined}
StorePasswords == {Password, Undefined}

NextStore ==
    \/ \E e \in StoreEmails, pw \in StorePasswords, n \in StoreNames : createUser(e, pw, n)
    \/ \E e \in {EmailA, EmailB, Empty}, pw \in {Password, ShortPassword}, n \in {NameA, NameB} :
          Register(e, pw, n)
    \/ \E frame \in BagToSet(hashing) : createUserResume(frame)
    \/ \E u \in UserIds, e \in {EmailA, EmailAUpper, EmailB, Undefined},
          n \in {NameA, NameAUpper, Undefined} :
          updateUser(u, [email |-> e, username |-> n])
    \/ \E u \in UserIds : deleteUser(u)

SpecStore == Init /\ [][NextStore]_vars

\* the same calls one at a time: no call starts while a createUser is suspended
NextStoreSeq ==
    \/ /\ hashing = EmptyBag
       /\ \E e \in StoreEmails, pw \in StorePasswords, n \in StoreNames : createUser(e, pw, n)
    \/ /\ hashing = EmptyBag
       /\ \E e \in {EmailA, EmailB, Empty}, pw \in {Password, ShortPassword}, n \in {NameA, NameB} :
             Register(e, pw, n)
    \/ \E frame \in BagToSet(hashing) : createUserResume(frame)
    \/ /\ hashing = EmptyBag
       /\ \E u \in UserIds, e \in {EmailA, EmailAUpper, EmailB, Undefined},
             n \in {NameA, NameAUpper, Undefined} :
             updateUser(u, [email |-> e, username |-> n])
    \/ /\ hashing = EmptyBag
       /\ \E u \in UserIds : deleteUser(u)

SpecStoreSeq == Init /\ [][NextStoreSeq]_vars

---------------------------------------------------------------------------
(* Claims about the identity store *)

CreateOps == {"createUser", "register"}

\* C7: in every reachable state no two users have the same email under
\* case-insensitive comparison
C7_EmailUniqueCaseInsensitive ==
    \A u1, u2 \in DOMAIN users :
        u1 # u2 => toLowerCase(users[u1].email) # toLowerCase(users[u2].email)

\* C8: in every reachable state no two users have the same username under
\* case-insensitive comparison
C8_UsernameUniqueCaseInsensitive ==
    \A u1, u2 \in DOMAIN users :
        u1 # u2 => toLowerCase(users[u1].username) # toLowerCase(users[u2].username)

\* C9: of two registrations for the same email or the same username that are
\* suspended at the password hash together, at most one creates a user: a step
\* that creates a user never creates one whose email is already indexed or whose
\* username is already stored
C9_ConcurrentRegistrationsExclusive ==
    [][\A u \in DOMAIN users' \ DOMAIN users :
          /\ users'[u].email \notin DOMAIN usersByEmail
          /\ \A v \in DOMAIN users : users[v].username # users'[u].username]_vars

\* C10: a createUser call that fails leaves the user map, the email index and
\* the provider reverse index as they were before the call
C10_FailedCreateUserMutatesNothing ==
    [][(last'.op \in CreateOps /\ last'.result \notin {"ok", "pending"})
          => UNCHANGED <<users, usersByEmail, providerLinks>>]_vars

\* C10 witness: a createUser call has failed on a duplicate while users exist
C10_Witness ==
    /\ last.op \in CreateOps
    /\ last.result \in {"Email already registered", "Username already taken"}
    /\ DOMAIN users # {}

---------------------------------------------------------------------------
(* The OAuth routes *)

\* the provider's error parameter on a denied authorization
Denied == <<"d", "e", "n", "y">>

\* the tokens a client can present: those handed out, a bad one, or none
Presentable == issued \cup {NoToken, BadToken}

\* the state after POST /auth/register has succeeded for a@x/al and then for
\* b@x/bo, and nothing else has happened
RegisteredFrames ==
    << [email |-> EmailA, password |-> Password, username |-> NameA, route |-> TRUE],
       [email |-> EmailB, password |-> Password, username |-> NameB, route |-> TRUE] >>

RegisteredUsers ==
    createUserStoreUsers(createUserStoreUsers(EmptyMap, 1, RegisteredFrames[1]),
                         2, RegisteredFrames[2])

RegisteredIndex ==
    createUserStoreIndex(createUserStoreIndex(EmptyMap, 1, RegisteredFrames[1]),
                         2, RegisteredFrames[2])

InitRegistered ==
    /\ users = RegisteredUsers
    /\ usersByEmail = RegisteredIndex
    /\ providerLinks = EmptyMap
    /\ userTokens = EmptyMap
    /\ legacyTokens = EmptyMap
    /\ hashing = EmptyBag
    /\ nextId = 2
    /\ nextState = 0
    /\ cookies = NoCookies
    /\ consumed = {}
    /\ pending = EmptyMap
    /\ exchanging = EmptyBag
    /\ nextSecret = 0
    /\ comparing = EmptyBag
    /\ spent = {}
    /\ issued = {generateJWT(1, FALSE), generateJWT(2, FALSE)}
    /\ pong = NewGame(1)
    /\ playerPaused = FALSE
    /\ last = [op |-> "register", result |-> "ok", id |-> 2]

\* the provider and the external account of the callback runs
OAuthProviders == {"github"}
OAuthProviderIds == {42}

NextOAuth ==
    \/ \E p \in OAuthProviders \cup {UnknownProvider}, t \in Presentable : OAuthStart(p, t)
    \/ \E p \in OAuthProviders, e \in {Empty, Denied}, s \in 0 .. nextState,
          x \in BOOLEAN, y \in BOOLEAN, pid \in OAuthProviderIds :
          OAuthCallback(p, e, s, x, y, pid)
    \/ \E p \in OAuthProviders \cup {UnknownProvider} : LegacyOAuthStart(p)
    \/ \E p \in OAuthProviders, e \in {Empty, Denied}, s \in 0 .. nextState,
          x \in BOOLEAN, y \in BOOLEAN, pid \in OAuthProviderIds :
          LegacyOAuthCallback(p, e, s, x, y, pid)

SpecOAuth == InitRegistered /\ [][NextOAuth]_vars

\* the identity graph under direct link, unlink and delete calls and /auth callbacks
NextLink ==
    \/ \E u \in UserIds, p \in OAuthProviders, pid \in ProviderIds : linkProvider(u, p, pid)
    \/ \E u \in UserIds, p \in OAuthProviders : unlinkProvider(u, p)
    \/ \E u \in UserIds : deleteUser(u)
    \/ \E p \in OAuthProviders, t \in Presentable : OAuthStart(p, t)
    \/ \E p \in OAuthProviders, e \in {Empty, Denied}, s \in 0 .. nextState,
          x \in BOOLEAN, y \in BOOLEAN, pid \in ProviderIds :
          OAuthCallback(p, e, s, x, y, pid)

SpecLink == InitRegistered /\ [][NextLink]_vars

---------------------------------------------------------------------------
(* Claims about provider links and the OAuth callback *)

\* C1: in every reachable state no two distinct users hold a link with the same
\* provider and providerId
C1_ProviderAccountSingleOwner ==
    \A u1, u2 \in DOMAIN users :
        u1 # u2 =>
            \A p \in DOMAIN users[u1].providers \cap DOMAIN users[u2].providers :
                users[u1].providers[p] # users[u2].providers[p]

\* C1 witness: a link attempt for an account that another user holds has just
\* been rejected, by linkProvider or by the callback's link branch
C1_Witness ==
    /\ \/ last.op = "linkProvider"
          /\ last.result = "This provider account is already linked to another user"
       \/ last.op = "callback" /\ last.result = "provider_linked_to_different_user"
    /\ \E u \in DOMAIN users : DOMAIN users[u].providers # {}

CallbackOps == {"callback", "legacy_callback"}

\* C4: a callback with a valid state, no link intent and a provider account that is
\* linked to no user ends in account_not_found, creates no user, link or token
\* record and issues no token
C4_UnlinkedLoginNeverCreates ==
    [][(last'.op \in CallbackOps /\ last'.case = "login_unlinked")
          => /\ last'.result = "account_not_found"
             /\ UNCHANGED <<users, usersByEmail, providerLinks, userTokens, legacyTokens,
                            issued>>]_vars

\* C5: a callback that presents a state value an earlier callback was processed
\* with ends in invalid_state
C5_StateSingleUse ==
    [][(last'.op = "callback" /\ last'.replay) => last'.result = "invalid_state"]_vars

\* C12: a callback is treated as a link attempt for a user only if the initiation
\* that issued its state was made by that user with a valid token
C12_LinkIntentBoundToState ==
    (last.op = "callback" /\ last.case = "link") => last.intended

\* C17: a callback whose code exchange or profile fetch fails ends in
\* oauth_failed and creates no provider link, reverse-index entry or token record
C17_UpstreamFailureIsOAuthFailed ==
    [][(last'.op = "callback" /\ last'.case = "upstream")
          => /\ last'.result = "oauth_failed"
             /\ UNCHANGED <<users, providerLinks, userTokens>>]_vars

\* C6: every terminal outcome of the callback leaves the browser with neither the
\* oauth_state nor the oauth_link_user cookie
C6_TerminalClearsBothCookies ==
    last.op = "callback" =>
        cookies.oauth_state = NoCookie /\ cookies.oauth_link_user = NoCookie

---------------------------------------------------------------------------
(* Second-factor specification: enrolment, verification, regeneration, disabling *)

\* the users whose second factor is exercised
TfaUsers == {1}

\* the tokens submitted: the authenticator's code for each secret (the code of
\* another secret is a wrong 6-digit code) and the freely drawn backup codes
TfaTokens == {totpCode(k) : k \in 1 .. MaxSecrets} \cup CodeSpace

\* the password and token sent to disable2FA and regenerateBackupCodes: the right
\* password with every token, a wrong password with the first authenticator code
TfaCredentials ==
    {<<Password, t>> : t \in TfaTokens} \cup {<<ShortPassword, totpCode(1)>>}

\* a token of 8 characters that converts to a number and is not 8 digits
SignedToken == <<"+", "1", "0", "0", "0", "0", "0", "1">>

Next2FA ==
    \/ \E u \in TfaUsers : setup2FA(u)
    \/ \E u \in TfaUsers, t \in TfaTokens, d \in Draws : verify2FASetup(u, t, d)
    \/ \E u \in TfaUsers, t \in TfaTokens \cup {SignedToken} : verify2FA(u, t)
    \/ \E u \in TfaUsers, c \in TfaCredentials : disable2FA(u, c[1], c[2])
    \/ \E u \in TfaUsers, c \in TfaCredentials : regenerateBackupCodes(u, c[1], c[2])
    \/ \E f \in BagToSet(comparing), d \in Draws : twoFactorResume(f, d)

Spec2FA == InitRegistered /\ [][Next2FA]_vars

\* C38: a user whose 2FA is not enabled has no backup codes, whatever the order
\* in which suspended disable2FA and regenerateBackupCodes calls resume and
\* enrolments are confirmed
C38_DisabledHasNoBackupCodes ==
    \A u \in DOMAIN users :
        ~users[u].twoFactor.enabled => users[u].twoFactor.backupCodes = << >>

\* C38 witness: a regenerateBackupCodes that was suspended with the right
\* password while 2FA was enabled has resumed after a disable2FA of the same
\* user completed, and has been refused
C38_Witness ==
    /\ last.op = "regenerateBackupCodes" /\ "passwordOk" \in DOMAIN last
    /\ last.passwordOk /\ last.result = "2FA is not enabled for this user"
    /\ ~users[last.id].twoFactor.enabled
    /\ users[last.id].twoFactor.backupCodes = << >>

\* UserService.get2FAStatus: what the status query reports for a stored user
get2FAStatus(us, userId) ==
    [enabled |-> us[userId].twoFactor.enabled,
     backupCodesRemaining |->
         Cardinality({i \in DOMAIN us[userId].twoFactor.backupCodes :
                        ~us[userId].twoFactor.backupCodes[i].used})]

\* C39: regenerateBackupCodes succeeds only with the right password and a code
\* that verifies while 2FA is enabled; a success leaves exactly 10 codes, all
\* unused, and the status query then reports 10 remaining; a failure leaves
\* every user, and so the list and its used flags, as it was
C39_RegenerateReplacesOrLeaves ==
    [][last'.op = "regenerateBackupCodes" =>
        /\ (last'.result = "ok") =>
              (/\ last'.passwordOk /\ last'.codeOk
               /\ users[last'.id].twoFactor.enabled /\ users'[last'.id].twoFactor.enabled
               /\ Len(users'[last'.id].twoFactor.backupCodes) = 10
               /\ \A i \in DOMAIN users'[last'.id].twoFactor.backupCodes :
                     ~users'[last'.id].twoFactor.backupCodes[i].used
               /\ get2FAStatus(users', last'.id).backupCodesRemaining = 10)
        /\ (last'.result # "ok") => (users' = users)]_vars

\* C39 witness: a regenerateBackupCodes authorised by a backup code has just
\* succeeded, and none of the codes of the new list is marked used
C39_Witness ==
    /\ last.op = "regenerateBackupCodes" /\ last.result = "ok"
    /\ last.method = "backup_code"
    /\ get2FAStatus(users, last.id) = [enabled |-> TRUE, backupCodesRemaining |-> 10]

\* the calls that submit a second-factor token
TfaSubmitOps == {"verify2FA", "disable2FA", "regenerateBackupCodes"}

\* C3: once a submission of a backup code value has succeeded for a user, no
\* later submission of the same value for that user succeeds
C3_BackupCodeSingleUse ==
    [][(last'.op \in TfaSubmitOps /\ last'.resubmitted) => last'.result # "ok"]_vars

---------------------------------------------------------------------------
(* Password login and the routes that take a bearer token *)

\* the Authorization check every bearer route starts with, then verifyJWT:
\* nothing but the signature of the token is looked at
bearerError(token) ==
    IF token = NoToken THEN "No token provided"
    ELSE IF ~verifyJWT(token) THEN "Invalid token"
    ELSE "ok"

\* `userData.id` of a decoded token: a payload without the claim has none
tokenId(token) == IF "id" \in DOMAIN token THEN token.id ELSE NoUser

\* `userData.temp2FA` of a decoded token: a payload without the claim is falsy
tokenTemp2FA(token) == "temp2FA" \in DOMAIN token /\ token.temp2FA

\* what a bearer route answers
bearerResponse(op, token, result) ==
    [op |-> op, result |-> result, id |-> tokenId(token), temp |-> tokenTemp2FA(token)]

\* an authenticateUser that does not compare the password
authenticateUserAnyPassword(us, byEmail, email, password) ==
    LET userId == MapGetId(byEmail, toLowerCase(email)) IN
    IF userId = NoUser \/ userId \notin DOMAIN us THEN NoUser ELSE userId

\* UserService.authenticateUser: the user, or NoUser for 'Invalid credentials'
authenticateUser(us, byEmail, email, password) ==
    LET userId == MapGetId(byEmail, toLowerCase(email)) IN
    IF userId = NoUser \/ userId \notin DOMAIN us THEN NoUser
    ELSE IF ~verifyPassword(password, us[userId].password) THEN NoUser
    ELSE userId

\* UserService.authenticateUser: lastLogin is set once the password has matched
authenticateUserUsers(us, userId) ==
    IF userId # NoUser THEN [us EXCEPT ![userId].lastLogin = "login"] ELSE us

\* the HTTP status of the reply of POST /auth/login
loginStatus(result) ==
    IF result \in {"ok", "requiresTwoFactor"} THEN 200
    ELSE IF result = "Email and password are required" THEN 400
    ELSE 401

\* POST /auth/login: the answer
loginResult(us, byEmail, email, password, twoFactorCode) ==
    LET userId == authenticateUser(us, byEmail, email, password) IN
    IF Falsy(email) \/ Falsy(password) THEN "Email and password are required"
    ELSE IF userId = NoUser THEN "Invalid credentials"
    ELSE IF ~requires2FA(us, userId) THEN "ok"
    ELSE IF Falsy(twoFactorCode) THEN "requiresTwoFactor"
    ELSE IF verify2FAError(us, userId, twoFactorCode) # "ok" THEN "2FA verification failed"
    ELSE "ok"

\* POST /auth/login; the password comparison is awaited between the lookup of
\* the user and everything else, which reads the state of the moment it resumes
Login(email, password, twoFactorCode) ==
    LET result == loginResult(users, usersByEmail, email, password, twoFactorCode)
        userId == authenticateUser(users, usersByEmail, email, password)
        checked == result = "ok" /\ requires2FA(users, userId)
        reached == ~Falsy(email) /\ ~Falsy(password)
        loggedIn == IF reached THEN authenticateUserUsers(users, userId) ELSE users
    IN
    /\ users' = IF checked THEN verify2FAUsers(loggedIn, userId, twoFactorCode) ELSE loggedIn
    /\ spent' = IF checked THEN spentAfter(spent, userId, twoFactorCode, "ok") ELSE spent
    /\ issued' = IF result = "ok" THEN issued \cup {generateJWT(userId, TRUE)}
                 ELSE IF result = "requiresTwoFactor" THEN issued \cup {generateTempJWT(userId)}
                 ELSE issued
    /\ last' = [op |-> "login", result |-> result,
                id |-> IF Falsy(email) \/ Falsy(password) THEN NoUser ELSE userId,
                token |-> IF result = "ok" THEN generateJWT(userId, TRUE)
                          ELSE IF result = "requiresTwoFactor" THEN generateTempJWT(userId)
                          ELSE NoToken,
                verified |-> checked,
                status |-> loginStatus(result),
                badCredentials |->
                    /\ reached
                    /\ ~\E u \in DOMAIN users :
                          /\ users[u].email = toLowerCase(email)
                          /\ users[u].password = hashPassword(password)]
                 @@ returnsUser(loggedIn, IF result = "ok" THEN userId ELSE NoUser)
    /\ UNCHANGED <<usersByEmail, providerLinks, regVars, pongVars, oauthVars, nextSecret, comparing>>

\* a 2fa/verify that does not look at the temp2FA claim of the token
twoFactorVerifyResultAnyToken(us, tempToken, twoFactorCode) ==
    IF tempToken = NoToken \/ Falsy(twoFactorCode)
        THEN "Temporary token and 2FA code are required"
    ELSE IF ~verifyJWT(tempToken) THEN "Invalid token"
    ELSE verify2FAError(us, tokenId(tempToken), twoFactorCode)

\* POST /auth/2fa/verify: the answer
twoFactorVerifyResult(us, tempToken, twoFactorCode) ==
    IF tempToken = NoToken \/ Falsy(twoFactorCode)
        THEN "Temporary token and 2FA code are required"
    ELSE IF ~verifyJWT(tempToken) THEN "Invalid token"
    ELSE IF ~tokenTemp2FA(tempToken) THEN "Invalid temporary token"
    ELSE verify2FAError(us, tokenId(tempToken), twoFactorCode)

\* the HTTP status of the reply of POST /auth/2fa/verify
twoFactorVerifyStatus(result) ==
    IF result = "ok" THEN 200
    ELSE IF result \in {"Temporary token and 2FA code are required",
                        "Invalid temporary token"} THEN 400
    ELSE 401

\* the code is, at this moment, the authenticator's code or an unused backup
\* code of a user whose 2FA is enabled
codeVerifies(us, userId, code) ==
    /\ userId \in DOMAIN us
    /\ us[userId].twoFactor.enabled
    /\ \/ code = totpCode(us[userId].twoFactor.secret)
       \/ \E i \in DOMAIN us[userId].twoFactor.backupCodes :
             /\ us[userId].twoFactor.backupCodes[i].code = code
             /\ ~us[userId].twoFactor.backupCodes[i].used

\* POST /auth/2fa/verify
TwoFactorVerify(tempToken, twoFactorCode) ==
    LET result == twoFactorVerifyResult(users, tempToken, twoFactorCode)
        id == tokenId(tempToken) IN
    /\ users' = IF result = "ok" THEN verify2FAUsers(users, id, twoFactorCode)
                ELSE users
    /\ spent' = spentAfter(spent, id, twoFactorCode, result)
    /\ issued' = IF result = "ok" THEN issued \cup {generateJWT(id, TRUE)}
                 ELSE issued
    /\ last' = bearerResponse("2fa_verify", tempToken, result)
                 @@ [token |-> IF result = "ok" THEN generateJWT(id, TRUE)
                               ELSE NoToken,
                     verified |-> result = "ok",
                     status |-> twoFactorVerifyStatus(result),
                     presented |-> tempToken,
                     codeOk |-> codeVerifies(users, id, twoFactorCode)]
    /\ UNCHANGED <<usersByEmail, providerLinks, regVars, pongVars, oauthVars, nextSecret, comparing>>

\* the HTTP status of the reply of GET /auth/me: the catch answers 401
meStatus(result) ==
    IF result = "ok" THEN 200 ELSE IF result = "User not found" THEN 404 ELSE 401

\* the HTTP status of the reply of GET /auth/linked-providers: the catch answers 401
linkedProvidersStatus(result) == IF result = "ok" THEN 200 ELSE 401

\* the HTTP status of the reply of POST /auth/unlink-provider: a missing header is
\* answered 401, everything the try block throws 400
unlinkProviderStatus(result) ==
    IF result = "ok" THEN 200 ELSE IF result = "No token provided" THEN 401 ELSE 400

\* the HTTP status of the reply of POST /auth/2fa/setup: as for unlink-provider
twoFactorSetupStatus(result) ==
    IF result = "ok" THEN 200 ELSE IF result = "No token provided" THEN 401 ELSE 400

\* the HTTP status of the reply of POST /auth/2fa/verify-setup: as for unlink-provider
twoFactorVerifySetupStatus(result) ==
    IF result = "ok" THEN 200 ELSE IF result = "No token provided" THEN 401 ELSE 400

\* the status of a reply and the signature of the token it answers
statusOf(status, token) == [status |-> status, sig |-> token.sig]

\* GET /auth/me
Me(token) ==
    LET err == bearerError(token)
        result == IF err # "ok" THEN err
                  ELSE IF getUserById(users, token.id) = NoUser THEN "User not found"
                  ELSE "ok"
    IN
    /\ last' = bearerResponse("me", token, result) @@ statusOf(meStatus(result), token)
                 @@ returnsUser(users, IF result = "ok" THEN token.id ELSE NoUser)
    /\ UNCHANGED <<storeVars, otherVars>>

\* GET /auth/linked-providers
LinkedProviders(token) ==
    /\ last' = bearerResponse("linked_providers", token, bearerError(token))
                 @@ statusOf(linkedProvidersStatus(bearerError(token)), token)
    /\ UNCHANGED <<storeVars, otherVars>>

\* POST /auth/unlink-provider
UnlinkProviderRoute(token, provider) ==
    LET err == bearerError(token)
        result == IF err # "ok" THEN err
                  ELSE unlinkProviderError(users, token.id, provider)
    IN
    /\ users' = IF result = "ok" THEN unlinkProviderUsers(users, token.id, provider)
                ELSE users
    /\ providerLinks' = IF result = "ok"
                        THEN unlinkProviderLinks(users, providerLinks, token.id, provider)
                        ELSE providerLinks
    /\ last' = bearerResponse("unlink_provider", token, result) @@ [provider |-> provider]
                 @@ statusOf(unlinkProviderStatus(result), token)
    /\ UNCHANGED <<usersByEmail, otherVars>>

\* POST /auth/2fa/setup
TwoFactorSetup(token) ==
    LET err == bearerError(token)
        result == IF err # "ok" THEN err ELSE setup2FAError(users, token.id)
    IN
    /\ result = "ok" => nextSecret < MaxSecrets
    /\ users' = IF result = "ok"
                THEN [users EXCEPT ![token.id].twoFactor.secret = nextSecret + 1]
                ELSE users
    /\ nextSecret' = IF result = "ok" THEN nextSecret + 1 ELSE nextSecret
    /\ last' = bearerResponse("2fa_setup", token, result)
                 @@ statusOf(twoFactorSetupStatus(result), token)
    /\ UNCHANGED <<usersByEmail, providerLinks, regVars, pongVars, oauthVars, comparing, spent, issued>>

\* POST /auth/2fa/verify-setup
TwoFactorVerifySetup(token, twoFactorCode, draws) ==
    LET err == bearerError(token)
        result == IF token = NoToken THEN err
                  ELSE IF Falsy(twoFactorCode) THEN "2FA code is required"
                  ELSE IF err # "ok" THEN err
                  ELSE verify2FASetupError(users, token.id, twoFactorCode)
    IN
    /\ users' = IF result = "ok" THEN verify2FASetupUsers(users, token.id, draws) ELSE users
    /\ last' = bearerResponse("2fa_verify_setup", token, result)
                 @@ statusOf(twoFactorVerifySetupStatus(result), token)
    /\ UNCHANGED <<usersByEmail, providerLinks, otherVars>>

\* issueLinkIntent: a signed token that carries a provider account and
\* type=link_token, for POST /auth/link-provider
issueLinkIntent(provider, providerId) ==
    [sig |-> "ok", type |-> "link_token", provider |-> provider, providerId |-> providerId]

\* linkData.type === 'link_token'
isLinkToken(token) == "type" \in DOMAIN token /\ token.type = "link_token"

\* POST /auth/link-provider: the answer
linkProviderResult(us, byEmail, links, linkToken, email, password) ==
    LET userId == authenticateUser(us, byEmail, email, password) IN
    IF linkToken = NoToken \/ Falsy(email) \/ Falsy(password)
        THEN "Link token, email, and password are required"
    ELSE IF linkToken.sig # "ok" THEN "jwt malformed"
    ELSE IF ~isLinkToken(linkToken) THEN "Invalid link token"
    ELSE IF userId = NoUser THEN "Invalid credentials"
    ELSE IF isProviderLinked(links, linkToken.provider, linkToken.providerId)
        THEN "This provider account is already linked to another user"
    ELSE linkProviderToUserError(us, links, userId, linkToken.provider, linkToken.providerId)

\* POST /auth/link-provider; the password comparison is awaited before the
\* reverse index is read, so the handler acts on the state of the moment it resumes
LinkProviderRoute(linkToken, email, password) ==
    LET result == linkProviderResult(users, usersByEmail, providerLinks, linkToken, email,
                                     password)
        userId == authenticateUser(users, usersByEmail, email, password)
        ok == result = "ok"
        reached == result \notin {"Link token, email, and password are required",
                                  "jwt malformed", "Invalid link token"}
        loggedIn == IF reached THEN authenticateUserUsers(users, userId) ELSE users
    IN
    /\ users' = IF ok THEN linkProviderUsers(loggedIn, userId, linkToken.provider,
                                             linkToken.providerId)
                ELSE loggedIn
    /\ providerLinks' = IF ok THEN linkProviderLinks(providerLinks, userId, linkToken.provider,
                                                     linkToken.providerId)
                        ELSE providerLinks
    /\ userTokens' = IF ok THEN storeUserTokens(userTokens, userId, linkToken.provider)
                     ELSE userTokens
    /\ issued' = IF ok THEN issued \cup {generateJWT(userId, FALSE)} ELSE issued
    /\ last' = [op |-> "link_provider", result |-> result,
                token |-> IF ok THEN generateJWT(userId, FALSE) ELSE NoToken,
                verified |-> FALSE]
    /\ UNCHANGED <<usersByEmail, regVars, pongVars, legacyTokens, nextState, cookies, consumed, pending,
                   exchanging, tfaVars>>

---------------------------------------------------------------------------
(* Session specification: login, second-factor enrolment over the routes and
   the bearer routes, with every token a client can hold *)

LoginEmails == {EmailA, EmailAUpper, Empty}
LoginPasswords == {Password, ShortPassword}
\* the 2FA codes sent to the routes: none, the authenticator's code for the
\* first secret, one backup code
RouteCodes == {Empty, totpCode(1), code8("0", "1")}

NextSession ==
    \/ \E e \in LoginEmails, pw \in LoginPasswords, c \in RouteCodes : Login(e, pw, c)
    \/ \E t \in Presentable, c \in RouteCodes : TwoFactorVerify(t, c)
    \/ \E t \in Presentable : Me(t)
    \/ \E t \in Presentable : LinkedProviders(t)
    \/ \E t \in Presentable, p \in OAuthProviders : UnlinkProviderRoute(t, p)
    \/ \E t \in Presentable : TwoFactorSetup(t)
    \/ \E t \in Presentable, c \in RouteCodes, d \in Draws : TwoFactorVerifySetup(t, c, d)

SpecSession == InitRegistered /\ [][NextSession]_vars

\* the routes of the session specification that act for a fully authenticated user
FullSessionOps == {"me", "linked_providers", "unlink_provider", "2fa_setup", "2fa_verify_setup"}

\* C2: a route that requires a full session answers a temporary token (temp2FA)
\* with InsufficientTrust
C2_TempTokenRejected ==
    (last.op \in FullSessionOps /\ last.temp) => last.result = "InsufficientTrust"

---------------------------------------------------------------------------
(* Link-race specification: /auth callbacks in flight together *)

\* the state after the two registrations and linkProvider(2, "github", 41)
InitLinked ==
    /\ users = linkProviderUsers(RegisteredUsers, 2, "github", 41)
    /\ usersByEmail = RegisteredIndex
    /\ providerLinks = linkProviderLinks(EmptyMap, 2, "github", 41)
    /\ userTokens = EmptyMap
    /\ legacyTokens = EmptyMap
    /\ hashing = EmptyBag
    /\ nextId = 2
    /\ nextState = 0
    /\ cookies = NoCookies
    /\ consumed = {}
    /\ pending = EmptyMap
    /\ exchanging = EmptyBag
    /\ nextSecret = 0
    /\ comparing = EmptyBag
    /\ spent = {}
    /\ issued = {generateJWT(1, FALSE), generateJWT(2, FALSE)}
    /\ pong = NewGame(1)
    /\ playerPaused = FALSE
    /\ last = [op |-> "linkProvider", result |-> "ok", id |-> 2]

\* every link made in a run of this specification is made by a callback
NextLinkRace ==
    \/ \E p \in OAuthProviders, t \in Presentable : OAuthStart(p, t)
    \/ \E p \in OAuthProviders, e \in {Empty, Denied}, s \in 0 .. nextState :
          OAuthCallbackArrive(p, e, s)
    \/ \E f \in BagToSet(exchanging), x \in BOOLEAN, y \in BOOLEAN, pid \in ProviderIds :
          OAuthCallbackResume(f, x, y, pid)

SpecLinkRace == (InitRegistered \/ InitLinked) /\ [][NextLinkRace]_vars

\* a link attempt completes for an account that another user holds
LinkAttemptLoses ==
    /\ last'.op = "callback_resume" /\ last'.case = "link"
    /\ last'.owner \notin {NoUser, last'.linkUser}

\* a link attempt completes for an account that nobody holds, by a user with no
\* link for the provider
LinkAttemptWins ==
    /\ last'.op = "callback_resume" /\ last'.case = "link"
    /\ last'.owner = NoUser /\ ~last'.ownLink

---------------------------------------------------------------------------
(* Trust specification: every flow that issues a token, with users who enrol a
   second factor *)

\* what is sent as linkToken: nothing, garbage, a session token, a link token
LinkTokens == {NoToken, BadToken, generateJWT(1, FALSE), issueLinkIntent("github", 42)}

\* the tokens presented: none, garbage, and those issued for user 1
TrustTokens == {t \in Presentable : t.id \in {NoUser, 1}}

\* the backup codes drawn in this specification are distinct
TrustDraws == {d \in Draws : \A i, j \in DOMAIN d : i # j => d[i] # d[j]}

NextTrust ==
    \/ \E e \in {EmailA}, pw \in LoginPasswords, c \in RouteCodes : Login(e, pw, c)
    \/ \E t \in TrustTokens, c \in RouteCodes : TwoFactorVerify(t, c)
    \/ \E t \in TrustTokens : TwoFactorSetup(t)
    \/ \E t \in TrustTokens, c \in RouteCodes, d \in TrustDraws :
          TwoFactorVerifySetup(t, c, d)
    \/ \E lt \in LinkTokens, e \in {EmailA, Empty}, pw \in LoginPasswords :
          LinkProviderRoute(lt, e, pw)
    \/ \E p \in OAuthProviders, t \in TrustTokens : OAuthStart(p, t)
    \/ \E p \in OAuthProviders, s \in 0 .. nextState, pid \in OAuthProviderIds :
          OAuthCallback(p, Empty, s, TRUE, TRUE, pid)

SpecTrust == InitRegistered /\ [][NextTrust]_vars

\* the requests that can answer with a token
IssuingOps == {"login", "2fa_verify", "callback", "link_provider"}

\* C13: a full session token is issued for a user whose 2FA is enabled only by a
\* request that verified a second-factor code for that user
C13_FullTokenNeedsSecondFactor ==
    [][(/\ last'.op \in IssuingOps
        /\ last'.token # NoToken /\ ~last'.token.temp2FA
        /\ requires2FA(users, last'.token.id))
          => last'.verified]_vars

\* C14 as stated: in the link branch, an account held by a user other than L
\* ends the callback in provider_linked_to_different_user and leaves the links,
\* the reverse index and the token store as they were
C14_LinkedToDifferentUser ==
    [][LinkAttemptLoses
         => /\ last'.result = "provider_linked_to_different_user"
            /\ UNCHANGED <<users, providerLinks, userTokens>>]_vars

\* C14 amended: the same, for a link user L who has no link for this provider
C14_LinkedToDifferentUserNoOwnLink ==
    [][(LinkAttemptLoses /\ ~last'.ownLink)
         => /\ last'.result = "provider_linked_to_different_user"
            /\ UNCHANGED <<users, providerLinks, userTokens>>]_vars

\* C14 witness: a link attempt by a user with no link for the provider has been
\* rejected for an account that another user held before the callback arrived
C14_Witness ==
    /\ last.op = "callback_resume" /\ last.case = "link"
    /\ last.owner \notin {NoUser, last.linkUser} /\ ~last.ownLink /\ ~last.raced
    /\ last.result = "provider_linked_to_different_user"

\* C15: in the link branch, a link user who already has a link for the provider
\* gets provider_already_linked_to_you, whoever holds the account, and the links
\* and the reverse index stay as they were
C15_AlreadyLinkedToYouFirst ==
    [][(last'.op = "callback_resume" /\ last'.case = "link" /\ last'.ownLink)
         => /\ last'.result = "provider_already_linked_to_you"
            /\ UNCHANGED <<users, providerLinks>>]_vars

\* C15 witness: the link user has a link for the provider, the account is held
\* by another user, and the callback answered provider_already_linked_to_you
C15_Witness ==
    /\ last.op = "callback_resume" /\ last.case = "link" /\ last.ownLink
    /\ last.owner \notin {NoUser, last.linkUser}
    /\ last.result = "provider_already_linked_to_you"

\* a callback arrives whose state differs from the oauth_state cookie, or with
\* no such cookie
StateMismatchArrives == last'.op = "callback_arrive" /\ last'.mismatch

\* the callback answers invalid_state, starts no code exchange and leaves the
\* identity store and the token store as they were
RejectedAsInvalidState ==
    /\ last'.result = "invalid_state"
    /\ UNCHANGED <<users, usersByEmail, providerLinks, userTokens, exchanging, issued>>

\* C16 as stated: every callback whose state does not match ends in invalid_state
\* before the exchange, with no change
C16_StateMismatchRejected == [][StateMismatchArrives => RejectedAsInvalidState]_vars

\* C16 amended: the same, for a callback in which the provider reported no error
C16_StateMismatchRejectedNoError ==
    [][(StateMismatchArrives /\ ~last'.error) => RejectedAsInvalidState]_vars

\* C16 witness: a callback carrying a state other than the one in the cookie has
\* been answered with invalid_state
C16_Witness ==
    /\ last.op = "callback_arrive" /\ last.mismatch /\ ~last.error
    /\ last.result = "invalid_state"
    /\ pending # EmptyMap

---------------------------------------------------------------------------
(* Claims about the second factor *)

\* the twoFactor object of a user
tf(us, u) == us[u].twoFactor

\* C18: a user with 2FA enabled has a secret; 2FA becomes enabled only by a
\* verify2FASetup that succeeds with the code of the stored secret, and the
\* secret of an enabled user does not change
C18_EnabledMeansConfirmedSecret ==
    /\ [](\A u \in DOMAIN users : tf(users, u).enabled => tf(users, u).secret # 0)
    /\ [][\A u \in DOMAIN users \cap DOMAIN users' :
            /\ (~tf(users, u).enabled /\ tf(users', u).enabled)
                 => /\ last'.op = "verify2FASetup" /\ last'.id = u
                    /\ last'.result = "ok" /\ last'.valid
                    /\ tf(users', u).secret = tf(users, u).secret
            /\ (tf(users, u).enabled /\ tf(users', u).enabled)
                 => tf(users', u).secret = tf(users, u).secret]_vars

\* C18 witness: 2FA has just been enabled by a confirmation with the valid code
C18_Witness ==
    /\ last.op = "verify2FASetup" /\ last.result = "ok" /\ last.valid
    /\ tf(users, last.id).enabled /\ tf(users, last.id).secret # 0

\* C19: verify2FASetup with the valid code while enrolling enables 2FA and installs
\* exactly 10 unused backup codes; with no secret stored it fails as not initiated,
\* with a wrong code as invalid, and 2FA stays disabled with no backup codes; once
\* enabled it fails and changes nothing
C19_ConfirmEnrollment ==
    [][(last'.op = "verify2FASetup" /\ last'.id \in DOMAIN users)
         => LET before == tf(users, last'.id)
                after == tf(users', last'.id)
            IN
            /\ (before.secret = 0)
                 => last'.result = "2FA setup not initiated" /\ after = before
            /\ (before.secret # 0 /\ before.enabled)
                 => last'.result = "2FA is already enabled" /\ after = before
            /\ (before.secret # 0 /\ ~before.enabled /\ ~last'.valid)
                 => last'.result = "Invalid 2FA code" /\ after = before
            /\ (before.secret # 0 /\ ~before.enabled /\ last'.valid)
                 => /\ last'.result = "ok" /\ after.enabled
                    /\ Len(after.backupCodes) = 10
                    /\ \A i \in DOMAIN after.backupCodes : ~after.backupCodes[i].used
            /\ ~before.enabled => before.backupCodes = << >>]_vars

\* C19 witness: a confirmation has just succeeded and installed the backup codes
C19_Witness ==
    /\ last.op = "verify2FASetup" /\ last.result = "ok"
    /\ Len(tf(users, last.id).backupCodes) = 10

\* C20: disable2FA succeeds only with the right password and a valid 2FA code
\* while 2FA is enabled, and then resets the twoFactor object; when it fails,
\* enabled, the secret and the backup codes with their used flags are unchanged
C20_DisableNeedsPasswordAndCode ==
    [][(last'.op = "disable2FA" /\ last'.id \in DOMAIN users)
         => /\ last'.result = "ok"
                 => /\ last'.passwordOk /\ last'.codeOk
                    /\ tf(users, last'.id).enabled
                    /\ tf(users', last'.id) = NoTwoFactor
            /\ last'.result # "ok" => tf(users', last'.id) = tf(users, last'.id)]_vars

\* C20 witness: a disable2FA given the right password and a valid code has just
\* reset the twoFactor object of a user who had used a backup code
C20_Witness ==
    /\ last.op = "disable2FA" /\ last.result = "ok" /\ last.passwordOk /\ last.codeOk
    /\ tf(users, last.id) = NoTwoFactor
    /\ \E c \in CodeSpace : <<last.id, c>> \in spent

\* C21: setup2FA for a user with 2FA enabled fails as already enabled and leaves
\* the twoFactor object (secret, enabled, backup codes) unchanged; for a user with
\* 2FA not enabled it succeeds, stores a secret and leaves enabled false
C21_EnrollOnlyWhenNotEnabled ==
    [][(last'.op = "setup2FA" /\ last'.id \in DOMAIN users)
         => LET before == tf(users, last'.id)
                after == tf(users', last'.id)
            IN
            /\ before.enabled
                 => /\ last'.result = "2FA is already enabled for this user"
                    /\ after = before
            /\ ~before.enabled
                 => /\ last'.result = "ok"
                    /\ after.secret # 0 /\ ~after.enabled]_vars

\* C21 witness: setup2FA has just been refused for a user with 2FA enabled, after
\* a backup code of that user was spent
C21_Witness ==
    /\ last.op = "setup2FA" /\ last.result = "2FA is already enabled for this user"
    /\ tf(users, last.id).enabled
    /\ \E c \in CodeSpace : <<last.id, c>> \in spent

\* the backup codes of a user that are marked used
usedCodes(us, u) ==
    {i \in DOMAIN tf(us, u).backupCodes : tf(us, u).backupCodes[i].used}

\* C22: verify2FA for a user with 2FA enabled handles a code of exactly 8 digits
\* only as a backup code (one code becomes used on success, the failure is
\* "Invalid backup code") and every other code only as a time-based code (the
\* failure is "Invalid 2FA code", no backup code changes)
C22_VerifyRoutesByCodeShape ==
    [][(last'.op = "verify2FA" /\ last'.id \in DOMAIN users /\ tf(users, last'.id).enabled)
         => /\ last'.eightDigits
                 => /\ last'.method = "backup_code"
                    /\ last'.result \in {"ok", "Invalid backup code"}
                    /\ last'.result = "ok"
                         => Cardinality(usedCodes(users', last'.id))
                              = Cardinality(usedCodes(users, last'.id)) + 1
            /\ ~last'.eightDigits
                 => /\ last'.method = "totp"
                    /\ last'.result \in {"ok", "Invalid 2FA code"}
                    /\ tf(users', last'.id).backupCodes = tf(users, last'.id).backupCodes]_vars

---------------------------------------------------------------------------
(* The identity graph under direct calls of the store *)

NextGraph ==
    \/ \E u \in UserIds, p \in Providers, pid \in ProviderIds : linkProvider(u, p, pid)
    \/ \E u \in UserIds, p \in Providers : unlinkProvider(u, p)
    \/ \E u \in UserIds : deleteUser(u)

SpecGraph == InitRegistered /\ [][NextGraph]_vars

\* C23: unlinkProvider for a user without a link for the provider fails as not
\* linked and changes neither the users nor the reverse index; otherwise it
\* succeeds, the user has no forward link for the provider afterwards, the reverse
\* index has no entry for the unlinked account, and linkProvider of that account
\* would succeed for every other user
C23_UnlinkFreesAccount ==
    [][(last'.op = "unlinkProvider" /\ last'.id \in DOMAIN users)
         => LET u == last'.id
                p == last'.provider
            IN
            IF p \notin DOMAIN users[u].providers
              THEN /\ last'.result = "Provider not linked to this user"
                   /\ users' = users /\ providerLinks' = providerLinks
              ELSE LET pid == users[u].providers[p] IN
                   /\ last'.result = "ok"
                   /\ p \notin DOMAIN users'[u].providers
                   /\ <<p, pid>> \notin DOMAIN providerLinks'
                   /\ \A v \in DOMAIN users' \ {u} :
                         linkProviderError(users', providerLinks', v, p, pid) = "ok"]_vars

\* C23 witness: unlinkProvider has just succeeded for a user while another user
\* exists and other links are still recorded in the reverse index
C23_Witness ==
    /\ last.op = "unlinkProvider" /\ last.result = "ok"
    /\ last.provider \notin DOMAIN users[last.id].providers
    /\ DOMAIN users \ {last.id} # {}
    /\ \E k \in DOMAIN providerLinks : providerLinks[k] # last.id

\* C24: linkProvider of an account the same user already holds succeeds and
\* leaves the forward links of every user and the reverse index as they were
C24_RelinkIsIdempotent ==
    [][(last'.op = "linkProvider" /\ last'.relink)
         => /\ last'.result = "ok"
            /\ DOMAIN users' = DOMAIN users
            /\ \A u \in DOMAIN users : users'[u].providers = users[u].providers
            /\ providerLinks' = providerLinks]_vars

\* C24 witness: a user who holds github 42 and a discord account has just linked
\* github 42 again
C24_Witness ==
    /\ last.op = "linkProvider" /\ last.relink /\ last.result = "ok"
    /\ last.provider = "github" /\ last.providerId = 42
    /\ users[last.id].providers["github"] = 42
    /\ "discord" \in DOMAIN users[last.id].providers

---------------------------------------------------------------------------
(* Claims about the profile update and the deletion of a user *)

\* the users other than u whose stored email equals e when letter case is ignored
emailHolders(us, u, e) ==
    {v \in DOMAIN us \ {u} : toLowerCase(us[v].email) = toLowerCase(e)}

\* C25: updateUser of an existing user with a new email fails with "Email already
\* in use" exactly when the email, letter case ignored, is the stored email of a
\* different user; a failed updateUser leaves the users and the email index as
\* they were
C25_EmailInUseOnlyForOtherUser ==
    [][(last'.op = "updateUser" /\ last'.id \in DOMAIN users)
         => /\ ~Falsy(last'.email)
                 => (last'.result = "Email already in use"
                       <=> emailHolders(users, last'.id, last'.email) # {})
            /\ last'.result # "ok" => users' = users /\ usersByEmail' = usersByEmail]_vars

\* C26: after deleteUser(u) has succeeded no email-index entry and no reverse-index
\* entry maps to u, the deleted user's email and accounts do not resolve to u, and
\* every account the reverse index mapped to u can be linked by every other user
C26_DeleteLeavesNoIndexEntry ==
    [][(last'.op = "deleteUser" /\ last'.result = "ok")
         => LET u == last'.id IN
            /\ \A e \in DOMAIN usersByEmail' : usersByEmail'[e] # u
            /\ \A k \in DOMAIN providerLinks' : providerLinks'[k] # u
            /\ \A k \in DOMAIN providerLinks :
                  providerLinks[k] = u
                    => /\ getUserByProvider(users', providerLinks', k[1], k[2]) # u
                       /\ \A v \in DOMAIN users' :
                             linkProviderError(users', providerLinks', v, k[1], k[2]) = "ok"]_vars

---------------------------------------------------------------------------
(* Provider token records: revocation and logout *)

\* OAuthService.revokeTokens: what it returns; revokeOk is whether the request to
\* the provider's revocation endpoint succeeded (the provider's answer is taken in
\* the same step as the call)
revokeTokensResult(tokens, userId, revokeOk) ==
    IF userId \notin DOMAIN tokens THEN [success |-> FALSE, reason |-> "No tokens found"]
    ELSE IF tokens[userId].provider \notin Providers
      THEN [success |-> FALSE, reason |-> "Revocation not supported"]
    ELSE IF ~revokeOk THEN [success |-> FALSE, reason |-> "Request failed"]
    ELSE [success |-> TRUE, reason |-> "absent"]

\* OAuthService.revokeTokens: userTokens.delete(userId) after a successful request
revokeTokensTokens(tokens, userId, revokeOk) ==
    IF userId \in DOMAIN tokens /\ tokens[userId].provider \in Providers /\ revokeOk
      THEN MapDelete(tokens, userId)
      ELSE tokens

\* POST /auth/logout: the reply (fields that the reply does not carry are "absent")
logoutResponse(tokens, token, revokeOk) ==
    IF token = NoToken
      THEN [status |-> 200, message |-> "Logged out successfully",
            revoked |-> "absent", reason |-> "absent"]
    ELSE IF ~verifyJWT(token)
      THEN [status |-> 200, message |-> "Logged out successfully but token cleanup failed",
            revoked |-> "false", reason |-> "absent"]
    ELSE LET r == revokeTokensResult(tokens, token.id, revokeOk) IN
         IF r.success
           THEN [status |-> 200, message |-> "Logged out successfully and tokens revoked",
                 revoked |-> "true", reason |-> "absent"]
           ELSE [status |-> 200,
                 message |-> "Logged out successfully but token revocation failed",
                 revoked |-> "false", reason |-> r.reason]

\* whether the route reaches oauthService.revokeTokens
reachesRevoke(token) == token # NoToken /\ verifyJWT(token)

\* POST /auth/logout
Logout(token, revokeOk) ==
    /\ userTokens' = IF reachesRevoke(token)
                      THEN revokeTokensTokens(userTokens, token.id, revokeOk)
                      ELSE userTokens
    /\ last' = [op |-> "logout", id |-> token.id, sig |-> token.sig,
                held |-> token.id \in DOMAIN userTokens, revokeOk |-> revokeOk]
                 @@ logoutResponse(userTokens, token, revokeOk)
    /\ UNCHANGED <<storeVars, regVars, pongVars, legacyTokens, nextState, cookies, consumed, pending,
                   exchanging, tfaVars, issued>>

\* POST /auth/revoke: the reply
revokeResponse(tokens, token, revokeOk) ==
    IF token = NoToken THEN [status |-> 401, revoked |-> "absent", reason |-> "No token provided"]
    ELSE IF ~verifyJWT(token)
      THEN [status |-> 401, revoked |-> "absent", reason |-> "Invalid token"]
    ELSE LET r == revokeTokensResult(tokens, token.id, revokeOk) IN
         [status |-> 200, revoked |-> IF r.success THEN "true" ELSE "false",
          reason |-> r.reason]

\* POST /auth/revoke
RevokeRoute(token, revokeOk) ==
    /\ userTokens' = IF reachesRevoke(token)
                      THEN revokeTokensTokens(userTokens, token.id, revokeOk)
                      ELSE userTokens
    /\ last' = [op |-> "revoke", id |-> token.id, sig |-> token.sig,
                held |-> token.id \in DOMAIN userTokens, revokeOk |-> revokeOk]
                 @@ revokeResponse(userTokens, token, revokeOk)
    /\ UNCHANGED <<storeVars, regVars, pongVars, legacyTokens, nextState, cookies, consumed, pending,
                   exchanging, tfaVars, issued>>

\* the tokens presented in the token-record runs: the session token of user 1, a
\* bad one, or none
RecordTokens == {generateJWT(1, FALSE), BadToken, NoToken}

\* user 1 signs in, links accounts of both providers through /auth callbacks,
\* unlinks, revokes and logs out
NextTokens ==
    \/ \E p \in Providers, t \in RecordTokens : OAuthStart(p, t)
    \/ \E p \in Providers, s \in 0 .. nextState :
          OAuthCallback(p, Empty, s, TRUE, TRUE, 42)
    \/ \E t \in RecordTokens, p \in Providers : UnlinkProviderRoute(t, p)
    \/ \E t \in RecordTokens, ok \in BOOLEAN : Logout(t, ok)
    \/ \E t \in RecordTokens, ok \in BOOLEAN : RevokeRoute(t, ok)

SpecTokens == InitRegistered /\ [][NextTokens]_vars

\* the stored token record of user u is one for provider p
hasRecord(tokens, u, p) == u \in DOMAIN tokens /\ tokens[u].provider = p

\* C27: after a revocation that succeeded the user has no stored token record,
\* after one that failed the record held before is still stored, and after a
\* successful unlink of provider p the user has no stored record for p
C27_RecordRemovedOnRevokeAndUnlink ==
    [][/\ (last'.op \in {"logout", "revoke"} /\ last'.revoked = "true")
          => last'.id \notin DOMAIN userTokens'
       /\ (last'.op \in {"logout", "revoke"} /\ last'.revoked = "false" /\ last'.held)
          => /\ last'.id \in DOMAIN userTokens'
             /\ userTokens'[last'.id] = userTokens[last'.id]
       /\ (last'.op = "unlink_provider" /\ last'.result = "ok")
          => ~hasRecord(userTokens', last'.id, last'.provider)]_vars

\* C28: storing the tokens of a callback for a user and one provider leaves the
\* record stored for that user and a different provider in place
C28_RecordPerUserAndProvider ==
    [][last'.op = "callback"
         => \A u \in DOMAIN userTokens, p \in Providers :
              hasRecord(userTokens, u, p) => hasRecord(userTokens', u, p)]_vars

\* C29: logout answers with success whatever the token and the outcome
\* of the revocation, and whenever it did not revoke the provider tokens the reply
\* carries revoked=false and a reason
C29_LogoutReportsEveryFailure ==
    [][last'.op = "logout"
         => /\ last'.status = 200
            /\ last'.revoked # "true"
                 => last'.revoked = "false" /\ last'.reason # "absent"]_vars

---------------------------------------------------------------------------
(* Claims about the HTTP status of the bearer routes *)

\* C30: a route that requires a bearer token answers a missing, malformed, badly
\* signed or expired token with status 401, and every error reply of these routes
\* has a status in {400, 401, 404}
C30_InvalidBearerIs401 ==
    last.op \in FullSessionOps
      => /\ last.sig \in {"none", "bad"} => last.status = 401
         /\ last.result # "ok" => last.status \in {400, 401, 404}

---------------------------------------------------------------------------
(* The lifetime of the OAuth cookies *)

\* maxAge of the setCookie calls of GET /auth/oauth/:provider; @fastify/cookie
\* writes it as the Max-Age attribute, which browsers read in seconds
cookieMaxAge == 600000

\* the seconds that pass in one tick of the browser's clock
TickSeconds == 600

\* the browser drops a cookie whose age exceeds its Max-Age
expireCookies(jar) ==
    [jar EXCEPT
       !.oauth_state = IF jar.stateAge * TickSeconds > cookieMaxAge THEN NoCookie ELSE @,
       !.oauth_link_user = IF jar.linkAge * TickSeconds > cookieMaxAge THEN NoCookie ELSE @]

\* time passes in the browser
Tick ==
    /\ cookies.stateAge < MaxTicks /\ cookies.linkAge < MaxTicks
    /\ cookies' = expireCookies([cookies EXCEPT !.stateAge = @ + 1, !.linkAge = @ + 1])
    /\ last' = [op |-> "tick", result |-> "ok"]
    /\ UNCHANGED <<storeVars, regVars, pongVars, userTokens, legacyTokens, nextState, consumed, pending,
                   exchanging, tfaVars, issued>>

NextExpiry ==
    \/ \E p \in OAuthProviders, t \in {NoToken, generateJWT(1, FALSE)} : OAuthStart(p, t)
    \/ Tick
    \/ \E p \in OAuthProviders, e \in {Empty, Denied}, s \in 0 .. nextState, x \in BOOLEAN :
          OAuthCallback(p, e, s, x, TRUE, 42)

SpecExpiry == InitRegistered /\ [][NextExpiry]_vars

\* C31: a callback without a provider error that arrives more than 600 seconds
\* after the initiation that set oauth_state ends in invalid_state
C31_StateExpiresAfterTenMinutes ==
    [][(last'.op = "callback" /\ last'.result # "provider_error"
          /\ cookies.stateAge * TickSeconds > 600)
         => last'.result = "invalid_state"]_vars

---------------------------------------------------------------------------
(* Claims about password login *)

---------------------------------------------------------------------------
(* The user objects that calls return *)

\* the one draw of backup codes of these runs
ReturnDraws == {[i \in 1 .. MaxDraws |-> IF i = 1 THEN code8("0", "1") ELSE code8("0", "2")]}

\* registration, enrolment of user 1, use of a backup code, links, profile
\* updates, login, /auth/me and the lookups
NextReturn ==
    \/ \E e \in {EmailA, EmailB} : Register(e, Password, IF e = EmailA THEN NameA ELSE NameB)
    \/ \E frame \in BagToSet(hashing) : createUserResume(frame)
    \/ setup2FA(1)
    \/ \E d \in ReturnDraws : verify2FASetup(1, totpCode(1), d)
    \/ verify2FA(1, code8("0", "1"))
    \/ \E u \in UserIds : linkProvider(u, "github", 42)
    \/ \E u \in UserIds : unlinkProvider(u, "github")
    \/ \E u \in UserIds : updateUser(u, [email |-> Undefined, username |-> NameAUpper])
    \/ \E pw \in {Password, ShortPassword}, c \in {Empty, totpCode(1)} : Login(EmailA, pw, c)
    \/ \E t \in issued : Me(t)
    \/ \E u \in UserIds : getUserByIdCall(u)
    \/ \E e \in {EmailA, EmailB} : getUserByEmailCall(e)
    \/ getUserByProviderCall("github", 42)

SpecReturn == Init /\ [][NextReturn]_vars

\* C33: the user object a call returns has no password field, and its twoFactor
\* part carries only the enabled flag and the number of unused backup codes: no
\* secret, no backup code, no last used backup code
C33_ReturnedUserIsSanitized ==
    ("user" \in DOMAIN last /\ last.user # NoUserObject)
      => /\ "password" \notin DOMAIN last.user
         /\ DOMAIN last.user.twoFactor = {"enabled", "backupCodesRemaining"}
         /\ \A p \in DOMAIN last.user.providers :
               "providerId" \notin DOMAIN last.user.providers[p]

\* C33 witness: a login has just returned user 1, who has a stored secret, has
\* used a backup code and has a linked provider account
C33_Witness ==
    /\ last.op = "login" /\ last.result = "ok" /\ last.user # NoUserObject
    /\ last.user.id = 1 /\ last.user.twoFactor.backupCodesRemaining = 9
    /\ tf(users, 1).secret # 0 /\ tf(users, 1).lastUsedBackupCode = code8("0", "1")
    /\ "github" \in DOMAIN last.user.providers

---------------------------------------------------------------------------
(* Claims about the agreement of the maps of the identity store *)

\* C34: the reverse index maps (provider, providerId) to u exactly when u exists
\* and u's forward link for the provider has that providerId
C34_ForwardAndReverseAgree ==
    /\ \A k \in DOMAIN providerLinks :
          /\ providerLinks[k] \in DOMAIN users
          /\ k[1] \in DOMAIN users[providerLinks[k]].providers
          /\ users[providerLinks[k]].providers[k[1]] = k[2]
    /\ \A u \in DOMAIN users : \A p \in DOMAIN users[u].providers :
          /\ <<p, users[u].providers[p]>> \in DOMAIN providerLinks
          /\ providerLinks[<<p, users[u].providers[p]>>] = u

\* C35: usersByEmail maps e to id exactly when user id exists and its stored email
\* is e
C35_EmailIndexAgrees ==
    /\ \A e \in DOMAIN usersByEmail :
          usersByEmail[e] \in DOMAIN users /\ users[usersByEmail[e]].email = e
    /\ \A u \in DOMAIN users :
          users[u].email \in DOMAIN usersByEmail /\ usersByEmail[users[u].email] = u

---------------------------------------------------------------------------
(* Callbacks whose link user no longer exists *)

\* /auth callbacks in flight while users are deleted
NextOrphan ==
    \/ NextLinkRace
    \/ \E u \in UserIds : deleteUser(u)

SpecOrphan == (InitRegistered \/ InitLinked) /\ [][NextOrphan]_vars

\* C36: a callback that gets past the exchange with an oauth_link_user cookie
\* naming no existing user ends as a login: issued (requires_2fa with 2FA enabled)
\* for the owner of the provider account with any token issued being the owner's,
\* account_not_found when the account has no owner; no forward link and no
\* reverse-index entry changes
C36_UnresolvedLinkUserIsLogin ==
    [][(/\ last'.op = "callback_resume" /\ last'.result # "oauth_error"
        /\ last'.linkUser # NoCookie /\ last'.linkUser \notin DOMAIN users)
         => /\ last'.result =
                  IF last'.owner = NoUser THEN "account_not_found"
                  ELSE IF requires2FA(users, last'.owner) THEN "requires_2fa" ELSE "issued"
            /\ \A t \in issued' \ issued : t.id = last'.owner
            /\ users' = users /\ providerLinks' = providerLinks]_vars

\* C36 witness: a callback whose link user was deleted has just logged in the
\* owner of the provider account
C36_Witness ==
    /\ last.op = "callback_resume" /\ last.result = "issued"
    /\ last.linkUser # NoCookie /\ last.linkUser \notin DOMAIN users
    /\ last.owner \in DOMAIN users

---------------------------------------------------------------------------
(* Second step of a login: POST /auth/2fa/verify against every kind of token *)

\* what is sent as tempToken: nothing, garbage, the tokens issued for user 1
\* (session tokens and temporary tokens) and a link-intent token
VerifyTokens == TrustTokens \cup {issueLinkIntent("github", 42)}

NextVerify ==
    \/ \E c \in RouteCodes : Login(EmailA, Password, c)
    \/ \E t \in TrustTokens : TwoFactorSetup(t)
    \/ \E t \in TrustTokens, c \in RouteCodes, d \in TrustDraws :
          TwoFactorVerifySetup(t, c, d)
    \/ \E t \in VerifyTokens, c \in RouteCodes : TwoFactorVerify(t, c)
    \/ \E c \in RouteCodes \ {Empty} : disable2FA(1, Password, c)
    \/ \E f \in BagToSet(comparing), d \in TrustDraws : twoFactorResume(f, d)

SpecVerify == InitRegistered /\ [][NextVerify]_vars

\* C37: 2fa/verify issues a full session token exactly when the presented token
\* is validly signed and carries temp2FA, its user has 2FA enabled at that
\* moment and the submitted code verifies; a session token or a link-intent
\* token presented as tempToken is answered 400 and nothing is issued
C37_VerifyStepNeedsTempToken ==
    [][last'.op = "2fa_verify" =>
        /\ (last'.result = "ok") <=>
              (/\ last'.presented.sig = "ok"
               /\ "temp2FA" \in DOMAIN last'.presented /\ last'.presented.temp2FA
               /\ last'.codeOk)
        /\ (last'.result = "ok") =>
              (/\ last'.token = generateJWT(last'.presented.id, TRUE)
               /\ issued' = issued \cup {last'.token})
        /\ (last'.result # "ok") => (last'.token = NoToken /\ issued' = issued)
        /\ (last'.presented \in {generateJWT(1, FALSE), generateJWT(1, TRUE),
                                 issueLinkIntent("github", 42)})
              => (last'.status = 400 /\ last'.result # "ok")]_vars

\* C37 witness: a full session token has just been presented as tempToken with
\* a code that verifies for its user, whose 2FA is enabled, and was refused
C37_Witness ==
    /\ last.op = "2fa_verify" /\ last.result = "Invalid temporary token"
    /\ last.presented \in {generateJWT(1, FALSE), generateJWT(1, TRUE)}
    /\ last.codeOk /\ users[1].twoFactor.enabled
    /\ last.token = NoToken

---------------------------------------------------------------------------
(* The Pong page: PongGame's game state, its render loop, the Space key and the
   timer armed after a goal *)

\* goals played in a run
MaxGoals == 2
\* the x position of the right paddle and the x position beyond which the ball is
\* out, in steps of the ball (the left side is symmetric)
PaddleLine == 3
GoalLine == 4

\* PongGame.resetBall: the ball returns to the centre with a drawn direction; in
\* a started game the game stops and a timer of one second is armed
resetBall(game, direction) ==
    LET centred == [game EXCEPT !.ballX = 0, !.direction = direction] IN
    IF game.gameStarted
    THEN [centred EXCEPT !.gameRunning = FALSE, !.timers = @ + 1]
    ELSE centred

\* the callback of the timer armed by resetBall
timerCallback(game) ==
    IF game.gameStarted THEN [game EXCEPT !.gameRunning = TRUE] ELSE game

\* PongGame.toggleGame
toggleGame(game) ==
    IF ~game.gameStarted
    THEN [game EXCEPT !.gameStarted = TRUE, !.gameRunning = TRUE]
    ELSE [game EXCEPT !.gameRunning = ~game.gameRunning]

\* PongGame.updateBall
updateBall(game) == [game EXCEPT !.ballX = @ + game.direction]

\* PongGame.checkCollisions: a paddle the ball meets while moving towards it
\* turns the ball; a ball beyond the goal line scores and resets the ball
checkCollisions(game, hit, direction) ==
    LET turned == IF hit /\ game.ballX = game.direction * PaddleLine
                  THEN [game EXCEPT !.direction = -game.direction]
                  ELSE game IN
    IF turned.ballX < -GoalLine
        THEN resetBall([turned EXCEPT !.score.player2 = @ + 1], direction)
    ELSE IF turned.ballX > GoalLine
        THEN resetBall([turned EXCEPT !.score.player1 = @ + 1], direction)
    ELSE turned

\* the game after one frame of the render loop
frame(game, hit, direction) ==
    IF game.gameRunning THEN checkCollisions(updateBall(game), hit, direction) ELSE game

serverVars == <<storeVars, regVars, oauthVars, tfaVars, issued>>

\* the scene renders a frame: the registerBeforeRender callback runs
Render(hit, direction) ==
    LET after == frame(pong, hit, direction) IN
    /\ after.score.player1 + after.score.player2 <= MaxGoals
    /\ pong' = after
    /\ last' = [op |-> "render", result |-> IF after.score = pong.score THEN "ok" ELSE "goal"]
    /\ UNCHANGED <<serverVars, playerPaused>>

\* a keydown event with code Space
KeydownSpace ==
    /\ pong' = toggleGame(pong)
    /\ playerPaused' = (pong.gameStarted /\ pong.gameRunning)
    /\ last' = [op |-> "keydown", result |-> "ok"]
    /\ UNCHANGED serverVars

\* a timer armed after a goal fires (it is never cleared)
TimerFires ==
    /\ pong.timers > 0
    /\ pong' = [timerCallback(pong) EXCEPT !.timers = @ - 1]
    /\ last' = [op |-> "timer", result |-> "ok"]
    /\ UNCHANGED <<serverVars, playerPaused>>

\* the page has loaded: the server's state is untouched, the ball's first
\* direction is drawn
InitPong ==
    /\ users = EmptyMap /\ usersByEmail = EmptyMap /\ providerLinks = EmptyMap
    /\ userTokens = EmptyMap /\ legacyTokens = EmptyMap
    /\ hashing = EmptyBag /\ nextId = 0
    /\ nextState = 0 /\ cookies = NoCookies /\ consumed = {} /\ pending = EmptyMap
    /\ exchanging = EmptyBag
    /\ nextSecret = 0 /\ comparing = EmptyBag /\ spent = {}
    /\ issued = {}
    /\ pong \in {NewGame(d) : d \in {-1, 1}}
    /\ playerPaused = FALSE
    /\ last = NoResponse

NextPong ==
    \/ \E hit \in BOOLEAN, d \in {-1, 1} : Render(hit, d)
    \/ KeydownSpace
    \/ TimerFires

SpecPong == InitPong /\ [][NextPong]_vars

\* C40: once the player has paused a started game with Space, gameRunning
\* stays false until Space is pressed again; no timer armed after a goal
\* resumes a game the player has paused
C40_PauseIsSticky == playerPaused => ~pong.gameRunning

=============================================================================
